---- MODULE Spec2Model ----
(***************************************************************************)
(* Model of lunar-engine's command dispatch: Shell._execute, Shell.run,    *)
(* Prompt iteration and the handler registry (src/src/lunar_engine).       *)
(*                                                                         *)
(* Text is modelled as sequences of one-character strings, so that         *)
(* str.strip / str.split / int() are computed and not assumed.             *)
(***************************************************************************)
EXTENDS Integers, Sequences, FiniteSets, TLC

(* ------------------------------ bounds --------------------------------- *)
\* most argument tokens that follow the command token on one input line
MaxArgs == 3
\* most lines the input source delivers in one run of the loop
MaxLines == 2
\* registry operations the host performs
MaxOps == 4
\* argument tokens on a line that exercises coercion
MaxCoerceArgs == 2
\* most pieces of a comma-separated argument
MaxPieces == 3
\* registrations of functions with and without type hints
MaxTypedOps == 3

(* ------------------------------- text ---------------------------------- *)
\* characters str.split() / str.strip() treat as whitespace (those the inputs use)
Whitespace == {" ", "\t"}

Digits == {"0", "1", "2", "3", "4", "5", "6", "7", "8", "9"}

DigitValue(c) ==
    CASE c = "0" -> 0 [] c = "1" -> 1 [] c = "2" -> 2 [] c = "3" -> 3 [] c = "4" -> 4
      [] c = "5" -> 5 [] c = "6" -> 6 [] c = "7" -> 7 [] c = "8" -> 8 [] OTHER -> 9

RECURSIVE LStrip(_)
LStrip(s) == IF s # <<>> /\ Head(s) \in Whitespace THEN LStrip(Tail(s)) ELSE s

RECURSIVE RStrip(_)
RStrip(s) ==
    IF s # <<>> /\ s[Len(s)] \in Whitespace THEN RStrip(SubSeq(s, 1, Len(s) - 1)) ELSE s

\* str.strip()
Strip(s) == RStrip(LStrip(s))

RECURSIVE SplitFrom(_, _, _)
SplitFrom(s, cur, acc) ==
    IF s = <<>>
    THEN IF cur = <<>> THEN acc ELSE Append(acc, cur)
    ELSE IF Head(s) \in Whitespace
         THEN SplitFrom(Tail(s), <<>>, IF cur = <<>> THEN acc ELSE Append(acc, cur))
         ELSE SplitFrom(Tail(s), Append(cur, Head(s)), acc)

\* str.split() with no separator: runs of whitespace separate, no empty pieces
Split(s) == SplitFrom(s, <<>>, <<>>)

RECURSIVE DigitsValue(_, _)
DigitsValue(s, acc) ==
    IF s = <<>> THEN acc ELSE DigitsValue(Tail(s), acc * 10 + DigitValue(Head(s)))

AllDigits(s) == s # <<>> /\ \A i \in 1..Len(s) : s[i] \in Digits

\* int(text) on text without underscores: surrounding whitespace is dropped, then
\* an optional sign and digits
IntParseStripped(arg) ==
    IF arg # <<>> /\ Head(arg) \in {"+", "-"}
    THEN IF AllDigits(Tail(arg))
         THEN [ok |-> TRUE,
               val |-> IF Head(arg) = "-" THEN 0 - DigitsValue(Tail(arg), 0)
                       ELSE DigitsValue(Tail(arg), 0)]
         ELSE [ok |-> FALSE, val |-> 0]
    ELSE IF AllDigits(arg)
         THEN [ok |-> TRUE, val |-> DigitsValue(arg, 0)]
         ELSE [ok |-> FALSE, val |-> 0]

IntParse(arg) == IntParseStripped(Strip(arg))

RECURSIVE JoinWith(_, _)
\* sep.join(tokens)
JoinWith(toks, sep) ==
    IF toks = <<>> THEN <<>>
    ELSE IF Len(toks) = 1 THEN toks[1]
    ELSE toks[1] \o sep \o JoinWith(Tail(toks), sep)

\* str.lower() on the ASCII letters
UpperCase == <<"A", "B", "C", "D", "E", "F", "G", "H", "I", "J", "K", "L", "M",
               "N", "O", "P", "Q", "R", "S", "T", "U", "V", "W", "X", "Y", "Z">>
LowerCase == <<"a", "b", "c", "d", "e", "f", "g", "h", "i", "j", "k", "l", "m",
               "n", "o", "p", "q", "r", "s", "t", "u", "v", "w", "x", "y", "z">>

LowerChar(c) ==
    IF \E i \in 1..Len(UpperCase) : UpperCase[i] = c
    THEN LowerCase[CHOOSE i \in 1..Len(UpperCase) : UpperCase[i] = c]
    ELSE c

\* Lower leaving every character as it is
Lower_identity(s) == s

Lower(s) == [i \in 1..Len(s) |-> LowerChar(s[i])]

RECURSIVE SplitOnFrom(_, _, _, _)
\* str.split(sep) for a one-character separator: empty pieces are kept
SplitOnFrom(s, sep, cur, acc) ==
    IF s = <<>> THEN Append(acc, cur)
    ELSE IF Head(s) = sep THEN SplitOnFrom(Tail(s), sep, <<>>, Append(acc, cur))
    ELSE SplitOnFrom(Tail(s), sep, Append(cur, Head(s)), acc)

SplitOn(s, sep) == SplitOnFrom(s, sep, <<>>, <<>>)

(* ------------------------------ values --------------------------------- *)
\* Python values the binder passes to a command, in one record shape
NoneValue == [t |-> "NoneType", i |-> 0, s |-> <<>>, elems |-> <<>>]
IntValue(n) == [t |-> "int", i |-> n, s |-> <<>>, elems |-> <<>>]
StrValue(s) == [t |-> "str", i |-> 0, s |-> s, elems |-> <<>>]
BoolValue(b) == [t |-> "bool", i |-> IF b THEN 1 ELSE 0, s |-> <<>>, elems |-> <<>>]
ListValue(es) == [t |-> "list", i |-> 0, s |-> <<>>, elems |-> es]
\* a member of an Enum class, known by its name
EnumValue(name) == [t |-> "enum", i |-> 0, s |-> name, elems |-> <<>>]

DigitChars == <<"0", "1", "2", "3", "4", "5", "6", "7", "8", "9">>

RECURSIVE Decimal(_)
\* the decimal digits of n >= 0
Decimal(n) ==
    IF n < 10 THEN <<DigitChars[n + 1]>>
    ELSE Append(Decimal(n \div 10), DigitChars[(n % 10) + 1])

\* v.name if isinstance(v, Enum) else str(v)
LiteralOption(v) ==
    CASE v.t \in {"enum", "str"} -> v.s
      [] v.t = "int" -> IF v.i < 0 THEN <<"-">> \o Decimal(-v.i) ELSE Decimal(v.i)
      [] v.t = "bool" -> IF v.i = 1 THEN <<"T", "r", "u", "e">>
                         ELSE <<"F", "a", "l", "s", "e">>
      [] OTHER -> <<"N", "o", "n", "e">>

(* ------------------------------- types --------------------------------- *)
\* declared parameter types, as typing.get_origin / get_args see them
T_none == [tag |-> "NoneType", args |-> <<>>]
T_str == [tag |-> "str", args |-> <<>>]
T_int == [tag |-> "int", args |-> <<>>]
T_bool == [tag |-> "bool", args |-> <<>>]
T_list(item) == [tag |-> "list", args |-> <<item>>]
T_union(ts) == [tag |-> "UnionType", args |-> ts]
\* typing.Literal[...]: args are the allowed values
T_literal(values) == [tag |-> "Literal", args |-> values]
\* a parameter without annotation: its name is no key of get_type_hints(func)
Untyped == [tag |-> "", args |-> <<>>]

TypeName(ty) == ty.tag

RECURSIVE JoinNames(_)
\* " | ".join(t.__name__ for t in non_none_types)
JoinNames(ts) ==
    IF ts = <<>> THEN <<>>
    ELSE IF Len(ts) = 1 THEN <<TypeName(ts[1])>>
    ELSE <<TypeName(ts[1]), "|">> \o JoinNames(Tail(ts))

(* ------------------------------- dicts --------------------------------- *)
\* a Python dict: a sequence of [k, v] pairs in insertion order, keys distinct
EmptyDict == <<>>

DictHas(d, k) == \E i \in 1..Len(d) : d[i].k = k

DictGet(d, k) == d[CHOOSE i \in 1..Len(d) : d[i].k = k].v

DictKeys(d) == [i \in 1..Len(d) |-> d[i].k]

\* d[k] = v: an existing key keeps its position, a new key is appended
DictSet(d, k, v) ==
    IF DictHas(d, k)
    THEN [i \in 1..Len(d) |-> IF d[i].k = k THEN [k |-> k, v |-> v] ELSE d[i]]
    ELSE Append(d, [k |-> k, v |-> v])

\* del d[k] / d.pop(k, None)
DictDel(d, k) == SelectSeq(d, LAMBDA e : e.k # k)

(* ------------------------- registered functions ------------------------ *)
N_hello == <<"h", "e", "l", "l", "o">>
N_sum3 == <<"s", "u", "m", "3">>
N_test == <<"t", "e", "s", "t">>
N_add == <<"a", "d", "d">>
N_log == <<"l", "o", "g">>
N_git == <<"g", "i", "t">>
N_commit == <<"c", "o", "m", "m", "i", "t">>
N_push == <<"p", "u", "s", "h">>
N_exit == <<"e", "x", "i", "t">>
N_help == <<"h", "e", "l", "p">>
N_flag == <<"f", "l", "a", "g">>
N_opt == <<"o", "p", "t">>
N_uni == <<"u", "n", "i">>
N_num == <<"n", "u", "m">>
N_pick == <<"p", "i", "c", "k">>
N_ids == <<"i", "d", "s">>
N_two == <<"t", "w", "o">>
N_factory == <<"f", "a", "c", "t", "o", "r", "y">>
N_kwd == <<"k", "w", "d">>
N_note == <<"n", "o", "t", "e">>
N_dim == <<"d", "i", "m">>
N_cell == <<"c", "e", "l", "l">>
N_secret == <<"s", "e", "c", "r", "e", "t">>

\* inspect.Parameter of a command function: name, kind, whether it has a default,
\* and its type hint
Param(name, kind, has_default, type) ==
    [name |-> name, kind |-> kind, has_default |-> has_default, type |-> type]

Positional(name, type) == Param(name, "POSITIONAL_OR_KEYWORD", FALSE, type)
Defaulted(name, type) == Param(name, "POSITIONAL_OR_KEYWORD", TRUE, type)
VarPositional(name, type) == Param(name, "VAR_POSITIONAL", FALSE, type)

\* inspect.signature(func).parameters of the functions registered in the model:
\*   hello(name: str)                      sum3(a: int, b: int, c: int)
\*   test(a: int, b: str | None = None, c: int = 0)
\*   add(*nums: int)                       log(level: str, code: int = 0, *rest: str)
\*   git()   commit(message: str)          push(remote: str = .., branch: str = ..)
\*   Shell._exit_command()                 Shell._help_command(command_name: str | None = None)
\*   flag(b: bool)   opt(b: bool = False)  uni(v: int | str)
\*   num(v: int | None | bool)             pick(v: list[int] | str)
\*   ids(v: list[int] | bool)              two(a: int | str, b: int | bool)
\*   factory(*, a: bool | str)             kwd(x: int, *, a: str = "d")
\*   note(level: str, text: str | None = "-", *rest: str)
\*   dim(a: str = "x", b: bool = False)    cell(a: int, b: bool)
\*   secret() and every other function: no parameters
\* and of the functions a host may try to register:
\*   bare(a)   bare_only(a, /)   bare_kw(*, a)   bare_var(*a)   mixed(a: int, b)
\*   kwargs(**kw)   typed_kw(*, a: int)   typed_var(a: int, *rest: str, **kw)
Signature(func) ==
    CASE func = "hello" -> <<Positional("name", T_str)>>
      [] func = "sum3" -> <<Positional("a", T_int), Positional("b", T_int),
                            Positional("c", T_int)>>
      [] func = "test" -> <<Positional("a", T_int),
                            Defaulted("b", T_union(<<T_str, T_none>>)),
                            Defaulted("c", T_int)>>
      [] func = "add" -> <<VarPositional("nums", T_int)>>
      [] func = "log" -> <<Positional("level", T_str), Defaulted("code", T_int),
                           VarPositional("rest", T_str)>>
      [] func = "git" -> <<>>
      [] func = "commit" -> <<Positional("message", T_str)>>
      [] func = "push" -> <<Defaulted("remote", T_str), Defaulted("branch", T_str)>>
      [] func = "_exit_command" -> <<>>
      [] func = "_help_command" ->
             <<Defaulted("command_name", T_union(<<T_str, T_none>>))>>
      [] func = "flag" -> <<Positional("b", T_bool)>>
      [] func = "opt" -> <<Defaulted("b", T_bool)>>
      [] func = "uni" -> <<Positional("v", T_union(<<T_int, T_str>>))>>
      [] func = "num" -> <<Positional("v", T_union(<<T_int, T_none, T_bool>>))>>
      [] func = "pick" -> <<Positional("v", T_union(<<T_list(T_int), T_str>>))>>
      [] func = "ids" -> <<Positional("v", T_union(<<T_list(T_int), T_bool>>))>>
      [] func = "factory" ->
             <<Param("a", "KEYWORD_ONLY", FALSE, T_union(<<T_bool, T_str>>))>>
      [] func = "kwd" -> <<Positional("x", T_int),
                           Param("a", "KEYWORD_ONLY", TRUE, T_str)>>
      [] func = "note" -> <<Positional("level", T_str),
                            Defaulted("text", T_union(<<T_str, T_none>>)),
                            VarPositional("rest", T_str)>>
      [] func = "dim" -> <<Defaulted("a", T_str), Defaulted("b", T_bool)>>
      [] func = "cell" -> <<Positional("a", T_int), Positional("b", T_bool)>>
      [] func = "two" -> <<Positional("a", T_union(<<T_int, T_str>>)),
                           Positional("b", T_union(<<T_int, T_bool>>))>>
      [] func = "bare" -> <<Positional("a", Untyped)>>
      [] func = "bare_only" -> <<Param("a", "POSITIONAL_ONLY", FALSE, Untyped)>>
      [] func = "bare_kw" -> <<Param("a", "KEYWORD_ONLY", FALSE, Untyped)>>
      [] func = "bare_var" -> <<VarPositional("a", Untyped)>>
      [] func = "mixed" -> <<Positional("a", T_int), Positional("b", Untyped)>>
      [] func = "kwargs" -> <<Param("kw", "VAR_KEYWORD", FALSE, Untyped)>>
      [] func = "typed_kw" -> <<Param("a", "KEYWORD_ONLY", FALSE, T_int)>>
      [] func = "typed_var" -> <<Positional("a", T_int), VarPositional("rest", T_str),
                                 Param("kw", "VAR_KEYWORD", FALSE, Untyped)>>
      [] OTHER -> <<>>

(* ------------------------------ registry -------------------------------- *)
\* CommandInfo: func, name, parent (entry id, 0 for None), children (dict name -> id)
CommandInfo(func, name, parent, children) ==
    [func |-> func, name |-> name, parent |-> parent, children |-> children]

\* the CommandInfo objects after the host registered its commands and Shell()
\* registered the built-ins
InitEntries ==
    <<CommandInfo("hello", N_hello, 0, EmptyDict),
      CommandInfo("sum3", N_sum3, 0, EmptyDict),
      CommandInfo("test", N_test, 0, EmptyDict),
      CommandInfo("add", N_add, 0, EmptyDict),
      CommandInfo("log", N_log, 0, EmptyDict),
      CommandInfo("git", N_git, 0,
                  <<[k |-> N_commit, v |-> 7], [k |-> N_push, v |-> 8]>>),
      CommandInfo("commit", N_commit, 6, EmptyDict),
      CommandInfo("push", N_push, 6, EmptyDict),
      CommandInfo("_exit_command", N_exit, 0, EmptyDict),
      CommandInfo("_help_command", N_help, 0, EmptyDict)>>

\* CommandRegistry._commands: the flat name -> entry mapping, nested entries included
InitCommands == [i \in 1..Len(InitEntries) |-> [k |-> InitEntries[i].name, v |-> i]]

\* CommandRegistry.__getitem__: the entry id, 0 for None
RegistryGet(cmds, name) == IF DictHas(cmds, name) THEN DictGet(cmds, name) ELSE 0

\* an optional name: the parent argument of register is None or a name
None == [some |-> FALSE, val |-> <<>>]
Some(x) == [some |-> TRUE, val |-> x]

\* the k-th function object the host defines: distinct functions, no parameters
HostFunc(k) == "f" \o ToString(k)

\* the outcome of a registry operation: the flat mapping, the entries, and the
\* exception raised ("" for none)
RegistryResult(cmds, ents, error) == [cmds |-> cmds, ents |-> ents, error |-> error]

\* CommandInfo.__post_init__ with *args exempt like **kwargs
PostInit_variadic_exempt(func) ==
    LET params == Signature(func) IN
    IF \E i \in 1..Len(params) :
           /\ params[i].kind \notin {"VAR_KEYWORD", "VAR_POSITIONAL"}
           /\ params[i].type = Untyped
    THEN "UntypedCommandException" ELSE ""

\* CommandInfo.__post_init__: the exception raised for a parameter without type
\* hint, "" for none; a **kwargs parameter is skipped
PostInit(func) ==
    LET params == Signature(func) IN
    IF \E i \in 1..Len(params) :
           /\ params[i].kind # "VAR_KEYWORD"
           /\ params[i].kind \in {"VAR_POSITIONAL", "POSITIONAL_ONLY",
                                   "POSITIONAL_OR_KEYWORD", "KEYWORD_ONLY"}
           /\ params[i].type = Untyped
    THEN "UntypedCommandException" ELSE ""

\* RegistryRegister linking the new child into its parent before the type hints
\* are tested: a registration that fails on them leaves the child behind
RegistryRegister_links_first(cmds, ents, func, cmd_name, parent) ==
    LET id == Len(ents) + 1 IN
    IF ~parent.some
    THEN IF DictHas(cmds, cmd_name)
         THEN RegistryResult(cmds, ents, "ValueError")
         ELSE IF PostInit(func) # "" THEN RegistryResult(cmds, ents, PostInit(func))
         ELSE RegistryResult(DictSet(cmds, cmd_name, id),
                             Append(ents, CommandInfo(func, cmd_name, 0, EmptyDict)), "")
    ELSE IF ~DictHas(cmds, parent.val) THEN RegistryResult(cmds, ents, "ValueError")
    ELSE LET pid == DictGet(cmds, parent.val) IN
         IF DictHas(ents[pid].children, cmd_name)
         THEN RegistryResult(cmds, ents, "ValueError")
         ELSE IF parent.val = <<>>
         THEN IF PostInit(func) # "" THEN RegistryResult(cmds, ents, PostInit(func))
              ELSE RegistryResult(DictSet(cmds, cmd_name, id),
                                  Append(ents, CommandInfo(func, cmd_name, 0, EmptyDict)),
                                  "")
         ELSE RegistryResult(
                  IF ~DictHas(cmds, cmd_name) /\ PostInit(func) = ""
                  THEN DictSet(cmds, cmd_name, id) ELSE cmds,
                  Append([ents EXCEPT ![pid].children = DictSet(@, cmd_name, id)],
                         CommandInfo(func, cmd_name, pid, EmptyDict)),
                  PostInit(func))

\* CommandRegistry.register(func, name=cmd_name, parent=parent): the uniqueness
\* tests come first, then CommandInfo(...) is created, whose __post_init__ raises
\* for an untyped parameter, then the registry is changed; the uniqueness test of
\* a root registration looks cmd_name up in the flat mapping, which holds nested
\* entries too; a nested entry enters the flat mapping only when its name is not
\* a key yet. The uniqueness tests ask "parent is None", the linking asks
\* "if parent:": for the parent '' (a key of the flat mapping when a function whose
\* __name__ is '' was registered) the tests of a nested registration are made,
\* but the entry is not linked, has no parent, and takes the flat key whatever
\* held it
RegistryRegister(cmds, ents, func, cmd_name, parent) ==
    LET id == Len(ents) + 1 IN
    IF ~parent.some
    THEN IF DictHas(cmds, cmd_name)
         THEN RegistryResult(cmds, ents, "ValueError")
         ELSE IF PostInit(func) # "" THEN RegistryResult(cmds, ents, PostInit(func))
         ELSE RegistryResult(DictSet(cmds, cmd_name, id),
                             Append(ents, CommandInfo(func, cmd_name, 0, EmptyDict)), "")
    ELSE IF ~DictHas(cmds, parent.val) THEN RegistryResult(cmds, ents, "ValueError")
    ELSE LET pid == DictGet(cmds, parent.val) IN
         IF DictHas(ents[pid].children, cmd_name)
         THEN RegistryResult(cmds, ents, "ValueError")
         ELSE IF PostInit(func) # "" THEN RegistryResult(cmds, ents, PostInit(func))
         ELSE IF parent.val = <<>>
         THEN RegistryResult(DictSet(cmds, cmd_name, id),
                             Append(ents, CommandInfo(func, cmd_name, 0, EmptyDict)), "")
         ELSE RegistryResult(
                  IF ~DictHas(cmds, cmd_name) THEN DictSet(cmds, cmd_name, id) ELSE cmds,
                  Append([ents EXCEPT ![pid].children = DictSet(@, cmd_name, id)],
                         CommandInfo(func, cmd_name, pid, EmptyDict)),
                  "")

RECURSIVE RegistryDelete(_, _, _, _)
RECURSIVE DeleteChildren(_, _, _, _)

\* the loop "for child in list(cmd.children.keys()): del self[child]": the first
\* exception ends it
DeleteChildren(cmds, ents, children, active) ==
    IF children = <<>> THEN RegistryResult(cmds, ents, "")
    ELSE LET r == RegistryDelete(cmds, ents, Head(children), active) IN
         IF r.error # "" THEN r
         ELSE DeleteChildren(r.cmds, r.ents, Tail(children), active)

\* CommandRegistry.__delitem__(name); active holds the calls in progress, each
\* with the registry it saw: a call that meets itself with nothing changed
\* recurses until Python raises RecursionError
RegistryDelete(cmds, ents, name, active) ==
    IF ~DictHas(cmds, name) THEN RegistryResult(cmds, ents, "")
    ELSE IF <<name, cmds, ents>> \in active
    THEN RegistryResult(cmds, ents, "RecursionError")
    ELSE LET id == DictGet(cmds, name)
             cmd == ents[id]
             detached == IF cmd.parent # 0
                         THEN [ents EXCEPT ![cmd.parent].children = DictDel(@, name)]
                         ELSE ents
             r == DeleteChildren(cmds, detached, DictKeys(detached[id].children),
                                 active \cup {<<name, cmds, ents>>})
         IN IF r.error # "" THEN r
            ELSE IF ~DictHas(r.cmds, name) THEN RegistryResult(r.cmds, r.ents, "KeyError")
            ELSE RegistryResult(DictDel(r.cmds, name), r.ents, "")

(* ------------------------------- events -------------------------------- *)
\* shell.Event
Event == {"UNEXPECTED_EXCEPTION", "COMMAND_EXCEPTION", "UNKNOWN_COMMAND", "INTERRUPT",
          "TYPE_TRANSFORM_ERROR", "ARGUMENT_COUNT_ERROR", "COMMAND_INTERRUPT"}

\* HandlerRegistry.__init__: every event kind has its default handler
DefaultHandlers ==
    [e \in Event |->
        CASE e = "UNEXPECTED_EXCEPTION" -> "_default_unexpected_exception"
          [] e = "COMMAND_EXCEPTION" -> "_default_command_exception"
          [] e = "UNKNOWN_COMMAND" -> "_default_unknown_command"
          [] e = "INTERRUPT" -> "_default_interrupt"
          [] e = "TYPE_TRANSFORM_ERROR" -> "_default_type_transform_error"
          [] e = "ARGUMENT_COUNT_ERROR" -> "_default_argument_error"
          [] OTHER -> "_default_command_interrupt"]

\* one call of a handler: which handler was called and with which arguments
\* (fields an event kind does not pass keep their blank value)
BlankEvent ==
    [kind |-> "", handler |-> "", name |-> <<>>, arg |-> <<>>, arg_name |-> "",
     arg_type |-> <<>>, missing |-> <<>>, has_missing |-> FALSE,
     provided |-> 0, expected |-> 0, total |-> 0, exc |-> "", options |-> {}]

\* self._handlers[Event.X]: HandlerRegistry.__getitem__
Handler(hs, kind) == hs[kind]

\* self._handlers[Event.UNKNOWN_COMMAND](parts[0])
UnknownCommand(hs, token) ==
    [BlankEvent EXCEPT !.kind = "UNKNOWN_COMMAND",
                       !.handler = Handler(hs, "UNKNOWN_COMMAND"), !.name = token]

\* self._handlers[Event.ARGUMENT_COUNT_ERROR](name, missing_args, provided, expected, total)
ArgumentCountError(hs, name, has_missing, missing, provided, expected, total) ==
    [BlankEvent EXCEPT !.kind = "ARGUMENT_COUNT_ERROR",
                       !.handler = Handler(hs, "ARGUMENT_COUNT_ERROR"), !.name = name,
                       !.has_missing = has_missing, !.missing = missing,
                       !.provided = provided, !.expected = expected, !.total = total]

\* self._handlers[Event.TYPE_TRANSFORM_ERROR](arg, arg_name, arg_type, options, e);
\* options is {} where the code passes None or nothing
TypeTransformError(hs, arg, arg_name, arg_type, options, exc) ==
    [BlankEvent EXCEPT !.kind = "TYPE_TRANSFORM_ERROR",
                       !.handler = Handler(hs, "TYPE_TRANSFORM_ERROR"), !.arg = arg,
                       !.arg_name = arg_name, !.arg_type = arg_type,
                       !.options = options, !.exc = exc]

\* self._handlers[Event.COMMAND_EXCEPTION](e), [Event.UNEXPECTED_EXCEPTION](e)
ExceptionEvent(hs, kind, exc) ==
    [BlankEvent EXCEPT !.kind = kind, !.handler = Handler(hs, kind), !.exc = exc]

\* self._handlers[Event.COMMAND_INTERRUPT](), [Event.INTERRUPT]()
PlainEvent(hs, kind) == [BlankEvent EXCEPT !.kind = kind, !.handler = Handler(hs, kind)]

(* ------------------------------ coercion ------------------------------- *)
\* the options set the bool branch passes to the handler
BoolOptions == {<<"t", "r", "u", "e">>, <<"f", "a", "l", "s", "e">>}

RECURSIVE MatchLiteral(_, _, _)
\* the loop over literal_values from the i-th on: an Enum member matches by its
\* name, any other value by str(value); a str value is then also compared
\* case-insensitively before the next value is looked at
MatchLiteral(literal_values, arg, i) ==
    IF i > Len(literal_values) THEN None
    ELSE LET literal_value == literal_values[i] IN
         IF literal_value.t = "enum"
         THEN IF literal_value.s = arg THEN Some(literal_value)
              ELSE MatchLiteral(literal_values, arg, i + 1)
         ELSE IF LiteralOption(literal_value) = arg THEN Some(literal_value)
         ELSE IF literal_value.t = "str" /\ Lower(literal_value.s) = Lower(arg)
         THEN Some(literal_value)
         ELSE MatchLiteral(literal_values, arg, i + 1)

RECURSIVE TransformSingleType(_, _, _, _, _)
RECURSIVE TransformElements(_, _, _, _, _, _)
RECURSIVE TryUnion(_, _, _, _, _, _)

\* TransformElements leaving out the elements that fail
TransformElements_skip_failed(hs, item_type, elements, arg_name, i, acc) ==
    IF i > Len(elements) THEN [ok |-> TRUE, val |-> ListValue(acc), events |-> <<>>]
    ELSE LET r == TransformSingleType(hs, item_type, Strip(elements[i]), arg_name, FALSE)
         IN TransformElements(hs, item_type, elements, arg_name, i + 1,
                              IF r.ok THEN Append(acc, r.val) ELSE acc)

\* the loop over the elements of a list argument: each element is stripped and
\* converted by _transform_single_type(list_item_type, element, arg_name), which
\* is called without suppress_error
TransformElements(hs, item_type, elements, arg_name, i, acc) ==
    IF i > Len(elements) THEN [ok |-> TRUE, val |-> ListValue(acc), events |-> <<>>]
    ELSE LET r == TransformSingleType(hs, item_type, Strip(elements[i]), arg_name, FALSE)
         IN IF r.ok
            THEN TransformElements(hs, item_type, elements, arg_name, i + 1,
                                   Append(acc, r.val))
            ELSE [ok |-> FALSE, val |-> NoneValue, events |-> r.events]

\* Shell._transform_single_type for the type shapes the registered functions use:
\* Literal[...] looks for a matching value, int parses, bool accepts true/false in
\* any case, list[T] splits on commas, every other type falls through to
\* "return arg"; ok is FALSE when InvalidArgumentTypeException is raised, events
\* are the handler calls made (the options of a Literal are a list, in the order
\* of the declaration; its handler call has None as the type and no exception)
TransformSingleType(hs, arg_type, arg, arg_name, suppress_error) ==
    CASE arg_type.tag = "Literal" ->
           LET m == MatchLiteral(arg_type.args, arg, 1)
               literal_options_list == [k \in 1..Len(arg_type.args) |->
                                           LiteralOption(arg_type.args[k])]
           IN IF m.some
              THEN [ok |-> TRUE, val |-> m.val, events |-> <<>>]
              ELSE [ok |-> FALSE, val |-> NoneValue,
                    events |-> IF suppress_error THEN <<>>
                               ELSE <<TypeTransformError(hs, arg, arg_name, <<>>,
                                                         literal_options_list, "")>>]
      [] arg_type.tag = "int" ->
           LET r == IntParse(arg) IN
           IF r.ok
           THEN [ok |-> TRUE, val |-> IntValue(r.val), events |-> <<>>]
           ELSE [ok |-> FALSE, val |-> NoneValue,
                 events |-> IF suppress_error THEN <<>>
                            ELSE <<TypeTransformError(hs, arg, arg_name, <<"int">>, {},
                                                      "ValueError")>>]
      [] arg_type.tag = "bool" ->
           IF Lower(arg) \notin BoolOptions
           THEN [ok |-> FALSE, val |-> NoneValue,
                 events |-> IF suppress_error THEN <<>>
                            ELSE <<TypeTransformError(hs, arg, arg_name, <<"bool">>,
                                                      BoolOptions, "ValueError")>>]
           ELSE [ok |-> TRUE, val |-> BoolValue(Lower(arg) = <<"t", "r", "u", "e">>),
                 events |-> <<>>]
      [] arg_type.tag = "list" ->
           LET elements == IF arg # <<>> THEN SplitOn(arg, ",") ELSE <<>>
               list_item_type == IF arg_type.args # <<>> THEN arg_type.args[1] ELSE T_str
           IN IF elements = <<>>
              THEN [ok |-> TRUE, val |-> ListValue(<<>>), events |-> <<>>]
              ELSE TransformElements(hs, list_item_type, elements, arg_name, 1, <<>>)
      [] OTHER -> [ok |-> TRUE, val |-> StrValue(arg), events |-> <<>>]

\* TryUnion giving up after the first candidate
TryUnion_first_only(hs, cands, arg, arg_name, failed, fired) ==
    IF cands = <<>>
    THEN [ok |-> FALSE, val |-> NoneValue, failed |-> failed, events |-> fired]
    ELSE LET r == TransformSingleType(hs, Head(cands), arg, arg_name, TRUE) IN
         IF r.ok
         THEN [ok |-> TRUE, val |-> r.val, failed |-> failed,
               events |-> fired \o r.events]
         ELSE [ok |-> FALSE, val |-> NoneValue, failed |-> TRUE,
               events |-> fired \o r.events]

\* the loop over non_none_types: the first candidate that converts wins;
\* failed says whether an earlier candidate raised (last_exception), fired holds
\* the handler calls the candidates made
TryUnion(hs, cands, arg, arg_name, failed, fired) ==
    IF cands = <<>>
    THEN [ok |-> FALSE, val |-> NoneValue, failed |-> failed, events |-> fired]
    ELSE LET r == TransformSingleType(hs, Head(cands), arg, arg_name, TRUE) IN
         IF r.ok
         THEN [ok |-> TRUE, val |-> r.val, failed |-> failed,
               events |-> fired \o r.events]
         ELSE TryUnion(hs, Tail(cands), arg, arg_name, TRUE, fired \o r.events)

NoneToken == <<"n", "o", "n", "e">>

RECURSIVE TransformFrom(_, _, _, _, _, _, _)
\* Shell._transform_types, iteration i (1-based) of zip_longest(types, args):
\* status "ok" with the values, "invalid" (InvalidArgumentTypeException), or
\* "raised" with the exception that escapes; events are the handler calls made
\* so far (fired) and by this iteration
TransformFrom(hs, types, args, arg_names, i, acc, fired) ==
    IF i > Len(types) /\ i > Len(args)
    THEN [status |-> "ok", vals |-> acc, events |-> fired, exc |-> ""]
    ELSE
      LET has_type == i <= Len(types)
          has_arg == i <= Len(args)
          is_union == has_type /\ types[i].tag = "UnionType"
          allows_none == is_union /\ \E j \in 1..Len(types[i].args) :
                                         types[i].args[j].tag = "NoneType"
      IN
      IF (~has_arg \/ args[i] = NoneToken) /\ allows_none
      THEN TransformFrom(hs, types, args, arg_names, i + 1, Append(acc, NoneValue),
                         fired)
      ELSE IF ~has_arg
      THEN [status |-> "raised", vals |-> acc, events |-> fired,
            exc |-> "AssertionError"]
      ELSE IF i > Len(arg_names)
      THEN [status |-> "raised", vals |-> acc, events |-> fired, exc |-> "IndexError"]
      ELSE IF is_union
      THEN LET non_none_types == SelectSeq(types[i].args, LAMBDA t : t.tag # "NoneType")
               u == TryUnion(hs, non_none_types, args[i], arg_names[i], FALSE, <<>>)
           IN
           IF non_none_types = <<>>
           THEN [status |-> "raised", vals |-> acc, events |-> fired,
                 exc |-> "AssertionError"]
           ELSE IF (~u.ok \/ u.val = NoneValue) /\ u.failed
           THEN [status |-> "invalid", vals |-> acc,
                 events |-> fired \o u.events \o
                            <<TypeTransformError(hs, args[i], arg_names[i],
                                                 JoinNames(non_none_types), {}, "")>>,
                 exc |-> "InvalidArgumentTypeException"]
           ELSE TransformFrom(hs, types, args, arg_names, i + 1, Append(acc, u.val),
                              fired \o u.events)
      ELSE LET arg_type == IF has_type THEN types[i] ELSE [tag |-> "None", args |-> <<>>]
               r == TransformSingleType(hs, arg_type, args[i], arg_names[i], FALSE)
           IN
           IF r.ok
           THEN TransformFrom(hs, types, args, arg_names, i + 1, Append(acc, r.val),
                              fired \o r.events)
           ELSE [status |-> "invalid", vals |-> acc, events |-> fired \o r.events,
                 exc |-> "InvalidArgumentTypeException"]

\* Shell._transform_types
TransformTypes(hs, types, args, arg_names) ==
    TransformFrom(hs, types, args, arg_names, 1, <<>>, <<>>)

(* ------------------------------ dispatch ------------------------------- *)
RECURSIVE Walk(_, _, _, _)
\* Walk that searches the remaining tokens for a child name: a token that matches
\* no child is skipped instead of ending the walk
Walk_first_match(ents, cur, parts, idx) ==
    IF \E j \in idx..Len(parts) : DictHas(ents[cur].children, parts[j])
    THEN LET j == CHOOSE k \in idx..Len(parts) :
                      /\ DictHas(ents[cur].children, parts[k])
                      /\ \A m \in idx..(k - 1) : ~DictHas(ents[cur].children, parts[m])
         IN Walk(ents, DictGet(ents[cur].children, parts[j]), parts, j + 1)
    ELSE [cmd |-> cur, start |-> idx]

\* the subcommand walk of Shell._execute: parts[idx] (1-based) is the next token;
\* yields the resolved entry and the index of the first argument token
Walk(ents, cur, parts, idx) ==
    IF idx <= Len(parts) /\ DictHas(ents[cur].children, parts[idx])
    THEN Walk(ents, DictGet(ents[cur].children, parts[idx]), parts, idx + 1)
    ELSE [cmd |-> cur, start |-> idx]

\* required_params: no default and not *args
RequiredParams(params) ==
    SelectSeq(params, LAMBDA p : ~p.has_default /\ p.kind # "VAR_POSITIONAL")

HasVarPositional(params) == \E i \in 1..Len(params) : params[i].kind = "VAR_POSITIONAL"

RECURSIVE EffectiveFrom(_, _, _, _)
\* the effective_args loop: stops at the first "none" token that stands at the
\* position of a parameter with a default
EffectiveFrom(args, params, i, acc) ==
    IF i > Len(args) THEN acc
    ELSE IF args[i] = NoneToken /\ i <= Len(params) /\ params[i].has_default THEN acc
    ELSE EffectiveFrom(args, params, i + 1, Append(acc, args[i]))

EffectiveArgs(args, params) == EffectiveFrom(args, params, 1, <<>>)

\* the condition of "validate count"
CountInvalid(n_effective, num_required, has_var_positional, n_params) ==
    n_effective < num_required \/ (~has_var_positional /\ n_effective > n_params)

\* MissingArgs without the slice: every required name is reported
MissingArgs_unsliced(required_params, n_effective) ==
    [i \in 1..Len(required_params) |-> required_params[i].name]

\* missing_arg_names[len(effective_args):]
MissingArgs(required_params, n_effective) ==
    [i \in 1..(Len(required_params) - n_effective) |->
        required_params[n_effective + i].name]

\* [x] * n for a possibly negative n
Repeat(x, n) == [i \in 1..n |-> x]

\* seq[:n] and seq[:-1]
Prefix(seq, n) == SubSeq(seq, 1, IF n < Len(seq) THEN n ELSE Len(seq))
AllButLast(seq) == SubSeq(seq, 1, Len(seq) - 1)

\* types_to_transform / names_to_transform: column is "type" or "name";
\* param_type_list and param_names come from get_type_hints(func), which has an
\* entry for the annotated parameters only, in the order of declaration (an
\* unannotated **kw is no key of it); has_var_positional comes from
\* inspect.signature
ToTransform(column, params, n_effective) ==
    LET hinted == SelectSeq(params, LAMBDA p : p.type # Untyped)
        list == [i \in 1..Len(hinted) |->
                    IF column = "type" THEN hinted[i].type ELSE hinted[i].name]
    IN IF HasVarPositional(params) /\ list # <<>>
       THEN AllButLast(list) \o Repeat(list[Len(list)], n_effective - (Len(list) - 1))
       ELSE Prefix(list, n_effective)

Outcome == {"return_none", "return_text", "raise_exception", "raise_keyboard_interrupt",
            "raise_interrupt"}

\* what calling the function does: the built-ins are fixed (exit raises
\* InterruptException, help prints and returns None), a host function may do anything
FuncOutcome(func, outcome) ==
    CASE func = "_exit_command" -> "raise_interrupt"
      [] func = "_help_command" -> "return_none"
      [] OTHER -> outcome

\* the value a command function returns as text
ResultText == <<"o", "k">>

\* what _execute did for a line: events are the handler calls made before the
\* function body ran (or without a call), after those made by the except clauses
\* around the call
NoResult ==
    [events |-> <<>>, calls |-> <<>>, raised |-> "", written |-> <<>>, after |-> <<>>]

\* CallEvents with KeyboardInterrupt routed to the loop-level INTERRUPT handler
CallEvents_interrupt_conflated(hs, outcome) ==
    CASE outcome = "raise_keyboard_interrupt" -> <<PlainEvent(hs, "INTERRUPT")>>
      [] outcome = "raise_exception" ->
             <<ExceptionEvent(hs, "COMMAND_EXCEPTION", "Exception")>>
      [] outcome = "raise_interrupt" ->
             <<ExceptionEvent(hs, "COMMAND_EXCEPTION", "InterruptException")>>
      [] OTHER -> <<>>

\* CallEvents without the inner "except Exception": the failure reaches the outer
\* catch-all and is reported as UNEXPECTED_EXCEPTION
CallEvents_reclassified(hs, outcome) ==
    CASE outcome = "raise_keyboard_interrupt" -> <<PlainEvent(hs, "COMMAND_INTERRUPT")>>
      [] outcome = "raise_exception" ->
             <<ExceptionEvent(hs, "UNEXPECTED_EXCEPTION", "Exception")>>
      [] outcome = "raise_interrupt" ->
             <<ExceptionEvent(hs, "COMMAND_EXCEPTION", "InterruptException")>>
      [] OTHER -> <<>>

\* the handler calls made by the try/except around cmd_info.func(*transformed_args):
\* KeyboardInterrupt is reported as COMMAND_INTERRUPT, every Exception
\* (InterruptException is one, through LunarEngineException) as COMMAND_EXCEPTION
CallEvents(hs, outcome) ==
    CASE outcome = "raise_keyboard_interrupt" -> <<PlainEvent(hs, "COMMAND_INTERRUPT")>>
      [] outcome = "raise_exception" ->
             <<ExceptionEvent(hs, "COMMAND_EXCEPTION", "Exception")>>
      [] outcome = "raise_interrupt" ->
             <<ExceptionEvent(hs, "COMMAND_EXCEPTION", "InterruptException")>>
      [] OTHER -> <<>>

\* the exception that leaves the try/except around the call: none, both except
\* clauses return
CallRaises(outcome) == ""

\* what _execute writes for the value the function returned: the value is dropped
ResultWritten(outcome) == <<>>

\* whether Python can bind n positional values to the parameters: enough for the
\* positional parameters without default, no more than the positional parameters
\* unless there is *args, and no keyword-only parameter without default
PythonBinds(params, n) ==
    LET positional == {i \in 1..Len(params) :
                          params[i].kind \in {"POSITIONAL_ONLY", "POSITIONAL_OR_KEYWORD"}}
    IN /\ n >= Cardinality({i \in positional : ~params[i].has_default})
       /\ HasVarPositional(params) \/ n <= Cardinality(positional)
       /\ \A i \in 1..Len(params) :
              params[i].kind = "KEYWORD_ONLY" => params[i].has_default

\* cmd_info.func(*transformed_args) with its try/except: when Python cannot bind
\* the values the call raises TypeError before the body runs (recorded as the
\* outcome of the call), which the inner "except Exception" reports as
\* COMMAND_EXCEPTION
CallResult(hs, call, outcome) ==
    IF PythonBinds(Signature(call.func), Len(call.args))
    THEN [events |-> <<>>, calls |-> <<call>>, raised |-> CallRaises(outcome),
          written |-> ResultWritten(outcome), after |-> CallEvents(hs, outcome)]
    ELSE [events |-> <<>>, calls |-> <<[call EXCEPT !.outcome = "raise_type_error"]>>,
          raised |-> "", written |-> <<>>,
          after |-> <<ExceptionEvent(hs, "COMMAND_EXCEPTION", "TypeError")>>]

\* Shell._execute from the resolved command on: arity check, coercion, call
BindAndCall(hs, cmd_info, args, outcome) ==
    LET params == Signature(cmd_info.func)
        required_params == RequiredParams(params)
        num_required == Len(required_params)
        effective_args == EffectiveArgs(args, params)
        n == Len(effective_args)
        has_var_positional == HasVarPositional(params)
    IN
    IF CountInvalid(n, num_required, has_var_positional, Len(params))
    THEN [NoResult EXCEPT !.events =
             <<ArgumentCountError(hs, cmd_info.name, n < num_required,
                                  IF n < num_required
                                  THEN MissingArgs(required_params, n) ELSE <<>>,
                                  n, num_required, Len(params))>>]
    ELSE
      LET names == IF n > 0 THEN ToTransform("name", params, n) ELSE <<>>
          t == IF n > 0
               THEN TransformTypes(hs, ToTransform("type", params, n), effective_args,
                                   names)
               ELSE [status |-> "ok", vals |-> <<>>, events |-> <<>>, exc |-> ""]
      IN
      CASE t.status = "invalid" -> [NoResult EXCEPT !.events = t.events]
        [] t.status = "raised" ->
               [NoResult EXCEPT !.events =
                   t.events \o <<ExceptionEvent(hs, "UNEXPECTED_EXCEPTION", t.exc)>>]
        [] OTHER ->
               [CallResult(hs, [func |-> cmd_info.func, args |-> t.vals,
                                names |-> names,
                                outcome |-> FuncOutcome(cmd_info.func, outcome)],
                           FuncOutcome(cmd_info.func, outcome))
                   EXCEPT !.events = t.events]

\* IsRootCommand without the "cmd_info.parent is not None" test
IsRootCommand_any_entry(cmds, ents, token) == RegistryGet(cmds, token) # 0

\* True when the first token resolves to a root-level entry
IsRootCommand(cmds, ents, token) ==
    RegistryGet(cmds, token) # 0 /\ ents[RegistryGet(cmds, token)].parent = 0

\* the object None in the place of a line: what get_input returns when the
\* session ends the wait on Ctrl-C or end of input without raising; it is not text
NoLine == <<"None">>

\* Execute without the "if not parts: return": a blank line is looked up like a
\* command name
Execute_no_blank_return(cmds, ents, hs, line, outcome) ==
    LET parts == Split(Strip(line)) IN
    IF line = NoLine
    THEN [NoResult EXCEPT
              !.events = <<ExceptionEvent(hs, "UNEXPECTED_EXCEPTION", "AttributeError")>>]
    ELSE IF parts = <<>> THEN [NoResult EXCEPT !.events = <<UnknownCommand(hs, <<>>)>>]
    ELSE IF ~IsRootCommand(cmds, ents, parts[1])
    THEN [NoResult EXCEPT !.events = <<UnknownCommand(hs, parts[1])>>]
    ELSE LET w == Walk(ents, RegistryGet(cmds, parts[1]), parts, 2) IN
         BindAndCall(hs, ents[w.cmd], SubSeq(parts, w.start, Len(parts)), outcome)

\* Shell._execute(line): the events fired, the calls made, the exception that
\* escapes ("" for none) and what is written for the result; line.strip() on None
\* raises AttributeError inside the try, which the catch-all reports
Execute(cmds, ents, hs, line, outcome) ==
    LET parts == Split(Strip(line)) IN
    IF line = NoLine
    THEN [NoResult EXCEPT
              !.events = <<ExceptionEvent(hs, "UNEXPECTED_EXCEPTION", "AttributeError")>>]
    ELSE IF parts = <<>> THEN NoResult
    ELSE IF ~IsRootCommand(cmds, ents, parts[1])
    THEN [NoResult EXCEPT !.events = <<UnknownCommand(hs, parts[1])>>]
    ELSE LET w == Walk(ents, RegistryGet(cmds, parts[1]), parts, 2) IN
         BindAndCall(hs, ents[w.cmd], SubSeq(parts, w.start, Len(parts)), outcome)

(* ------------------------------- inputs -------------------------------- *)
UnknownToken == <<"z", "z">>

\* first tokens the input source types: every registered name and an unknown one
FirstTokens == {InitEntries[i].name : i \in 1..Len(InitEntries)} \cup {UnknownToken}

\* the tokens after the first: text, a number, the "none" token, a subcommand name
ArgTokens == {<<"x">>, <<"1">>, NoneToken, N_commit}

TokenLists ==
    {<<f>> \o a : f \in FirstTokens,
                  a \in UNION {[1..n -> ArgTokens] : n \in 0..MaxArgs}}

BlankLines == {<<>>, <<" ">>, <<" ", "\t", " ">>}

\* the lines the input source delivers: tokens joined by one space, the same with
\* surrounding and doubled whitespace, and blank lines
Lines ==
    {JoinWith(tl, <<" ">>) : tl \in TokenLists}
        \cup {<<" ">> \o JoinWith(tl, <<" ", "\t">>) \o <<"\t">> : tl \in TokenLists}
        \cup BlankLines

(* ---------------------------- state machine ---------------------------- *)
VARIABLES pc,              \* position of Shell.run
          running,         \* Prompt._running
          in_context,      \* Prompt._in_context
          commands,        \* Shell._registry._commands
          entries,         \* the CommandInfo objects, by id
          handlers,        \* Shell._handlers._handlers
          line,            \* the line being processed, NoLine for None
          lines_read,      \* values the prompt has yielded to its loop
          source_interrupted, \* the input source has been interrupted (Ctrl-C, end
                           \* of input) instead of giving a line
          events,          \* handler calls made for the line being processed
          calls,           \* command function calls made for that line
          written,         \* what the shell wrote for the function's result
          run_error,       \* the exception Shell.run raised, "" for none
          ops,             \* registry operations the host has performed
          last_op,         \* the last host operation and the exception it raised
          shell_registry,  \* which CommandRegistry object Shell._registry is
          other_commands,  \* _commands of the registry object not bound to the shell
          completer_registry, \* which object prompt.completer._registry is
          other_handlers,  \* _handlers of the HandlerRegistry not bound to the shell
          shell_instance,  \* the classes whose own attribute _instance is True
          shells,          \* the class of each Shell object that has been constructed
          argv,            \* sys.argv[1:] of the process
          exit_status,     \* status the process exited with, -1 while it runs
          iter_state,      \* the generator of the host's "for ... in prompt" loop:
                           \* none, started/resumed (running, in get_input), suspended
          xf               \* the last direct call of _transform_single_type

reg_vars == <<ops, last_op>>
swap_vars == <<shell_registry, other_commands, completer_registry, other_handlers>>
host_vars == <<shell_instance, shells, argv, exit_status, iter_state, xf>>

vars == <<pc, running, in_context, commands, entries, handlers, line, lines_read,
          source_interrupted, events, calls, written, run_error, reg_vars, swap_vars,
          host_vars>>

\* no _transform_single_type call yet
NoTransform ==
    [type |-> T_none, pieces |-> <<>>, arg |-> <<>>, done |-> FALSE, ok |-> TRUE,
     val |-> NoneValue, events |-> <<>>]

\* the process before Shell.run: constructed says whether Shell() has been called;
\* no command line arguments, no loop over the prompt yet
InitHost(constructed) ==
    /\ shell_instance = IF constructed THEN {"Shell"} ELSE {}
    /\ shells = IF constructed THEN <<"Shell">> ELSE <<>>
    /\ argv = <<>>
    /\ exit_status = -1
    /\ iter_state = "none"
    /\ xf = NoTransform

\* no host operation yet
NoOp ==
    [op |-> "", name |-> <<>>, parent |-> None, kind |-> "", handler |-> "",
     func |-> "", error |-> ""]

HelpFlags == {<<"-", "-", "h", "e", "l", "p">>, <<"-", "h">>, <<"-", "?">>}

NoAltBufferFlag ==
    <<"-", "-", "n", "o", "-", "a", "l", "t", "-", "b", "u", "f", "f", "e", "r">>

\* filtered_args of _handle_cli_args: the arguments without the buffer flag
FilteredArgs(args) == SelectSeq(args, LAMBDA a : a # NoAltBufferFlag)

\* what _handle_cli_args does with the arguments: "interactive" (it returns True),
\* "help" (usage is printed), or "execute" (the arguments are run as one line)
CliMode(args) ==
    IF args = <<>> THEN "interactive"
    ELSE IF args[1] \in HelpFlags THEN "help"
    ELSE IF FilteredArgs(args) = <<>> THEN "interactive"
    ELSE "execute"

\* Shell._prompt is not None: Shell.run binds the prompt after _handle_cli_args
\* returned True; in help and execute mode it returns before
PromptBound == pc # "idle" /\ CliMode(argv) = "interactive"

\* Prompt.__init__, Shell.__init__ (builtins registered), before Shell.run
Init ==
    /\ pc = "idle"
    /\ InitHost(TRUE)
    /\ running = TRUE
    /\ in_context = FALSE
    /\ commands = InitCommands
    /\ entries = InitEntries
    /\ handlers = DefaultHandlers
    /\ line = <<>>
    /\ lines_read = 0
    /\ source_interrupted = FALSE
    /\ events = <<>>
    /\ calls = <<>>
    /\ written = <<>>
    /\ run_error = ""
    /\ ops = 0
    /\ last_op = NoOp
    /\ shell_registry = "global"
    /\ other_commands = EmptyDict
    /\ completer_registry = "global"
    /\ other_handlers = DefaultHandlers

\* Shell.run up to the first get_input: no CLI arguments, the prompt is bound,
\* Prompt.__enter__, the generator starts inside the context
Run ==
    /\ pc = "idle"
    /\ pc' = "reading-line"
    /\ running' = TRUE
    /\ in_context' = TRUE
    /\ UNCHANGED <<commands, entries, handlers, line, lines_read, source_interrupted,
                   events, calls, written, run_error, reg_vars, swap_vars, host_vars>>

\* Prompt.get_input returns a line and the generator yields it to the loop body
GetInput(l) ==
    /\ pc = "reading-line"
    /\ lines_read < MaxLines
    /\ pc' = "resolving-command"
    /\ line' = l
    /\ lines_read' = lines_read + 1
    /\ UNCHANGED <<running, in_context, commands, entries, handlers,
                   source_interrupted, events, calls, written, run_error, reg_vars,
                   swap_vars, host_vars>>

\* the input source is interrupted and the session ends the wait by returning
\* None instead of raising: get_input returns it and the generator yields it to
\* the loop body like a line, _running untouched
InputNone ==
    /\ pc = "reading-line"
    /\ lines_read < MaxLines
    /\ pc' = "resolving-command"
    /\ line' = NoLine
    /\ lines_read' = lines_read + 1
    /\ source_interrupted' = TRUE
    /\ UNCHANGED <<running, in_context, commands, entries, handlers, events, calls,
                   written, run_error, reg_vars, swap_vars, host_vars>>

\* the except clause of Shell.run: only InterruptException is caught
RunCatches(exc) == exc = "InterruptException"

\* what a host function does to the shell while it runs: nothing, or
\* "shell.registry = <the other registry>", or "shell.handlers = <the other one>",
\* or "prompt.completer.registry = <the registry the completer does not hold>"
Effect == {"none", "swap_registry", "swap_handlers", "swap_completer"}

\* the built-ins assign nothing, a host function may do anything
FuncEffect(func, effect) ==
    CASE func = "_exit_command" -> "none"
      [] func = "_help_command" -> "none"
      [] OTHER -> effect

OtherRegistry(r) == IF r = "global" THEN "my_registry" ELSE "global"

\* SetRegistry without retargeting the completer
SetRegistry_completer_kept(completer, prompt_bound, registry) ==
    [registry |-> registry, completer |-> completer]

\* the setter of Shell.registry: the completer follows when a prompt is bound
SetRegistry(completer, prompt_bound, registry) ==
    [registry |-> registry, completer |-> IF prompt_bound THEN registry ELSE completer]

\* the setter of CommandCompleter.registry: the completer holds what it is
\* given, the shell is not told
SetCompleterRegistry(completer, registry) == registry

\* handler calls made with the handler looked up in hs: self._handlers[kind](...)
Routed(evs, hs) ==
    [i \in 1..Len(evs) |-> [evs[i] EXCEPT !.handler = Handler(hs, evs[i].kind)]]

\* what follows self._execute(line) with result r in Shell.run, and what the
\* function did to the shell; the registry is read once, at the top of _execute,
\* the handler registry each time a handler is called: after the function body
\* ran, the except clauses and Shell.run find the handler registry the function
\* left bound (hs_after)
Settle(r, eff, hs_after) ==
    /\ calls' = r.calls
    /\ written' = r.written
    /\ handlers' = hs_after
    /\ other_handlers' = IF eff = "swap_handlers" THEN handlers ELSE other_handlers
    /\ IF eff = "swap_registry"
       THEN /\ shell_registry' =
                   SetRegistry(completer_registry, PromptBound,
                               OtherRegistry(shell_registry)).registry
            /\ completer_registry' =
                   SetRegistry(completer_registry, PromptBound,
                               OtherRegistry(shell_registry)).completer
            /\ commands' = other_commands
            /\ other_commands' = commands
       ELSE IF eff = "swap_completer"
       THEN /\ completer_registry' =
                   SetCompleterRegistry(completer_registry,
                                        OtherRegistry(completer_registry))
            /\ UNCHANGED <<shell_registry, commands, other_commands>>
       ELSE UNCHANGED <<shell_registry, completer_registry, commands, other_commands>>
    /\ IF r.raised = ""
       THEN /\ events' = r.events \o Routed(r.after, hs_after)
            /\ pc' = "line-done"
            /\ UNCHANGED <<running, in_context, run_error>>
       ELSE /\ events' = IF RunCatches(r.raised)
                         THEN r.events \o Routed(r.after, hs_after)
                                  \o <<PlainEvent(hs_after, "INTERRUPT")>>
                         ELSE r.events \o Routed(r.after, hs_after)
            /\ pc' = IF RunCatches(r.raised) THEN "terminated" ELSE "failed"
            /\ run_error' = IF RunCatches(r.raised) THEN "" ELSE r.raised
            /\ running' = FALSE
            /\ in_context' = FALSE

\* the handler registry bound after the function of result r applied eff
HandlersAfter(eff) == IF eff = "swap_handlers" THEN other_handlers ELSE handlers

\* what the function called in result r does to the shell: nothing when its body
\* did not run (no call, or a call that Python could not bind)
EffectOf(r, effect) ==
    IF r.calls # <<>> /\ r.calls[1].outcome # "raise_type_error"
    THEN FuncEffect(r.calls[1].func, effect) ELSE "none"

\* Settle with the effect of the function that r called
SettleEffect(r, eff) == Settle(r, eff, HandlersAfter(eff))

SettleResult(r, effect) == SettleEffect(r, EffectOf(r, effect))

\* the loop body self._execute(line), and Shell.run's handling of what it raises
DispatchWith(outcome, effect) ==
    /\ pc = "resolving-command"
    /\ SettleResult(Execute(commands, entries, handlers, line, outcome), effect)
    /\ UNCHANGED <<entries, line, lines_read, source_interrupted, reg_vars, host_vars>>

\* a line whose command leaves the shell's registry and handlers alone
Dispatch(outcome) == DispatchWith(outcome, "none")

\* the generator is resumed: "while self._running" and the next get_input; with
\* _running false the generator ends and Shell.run returns
NextLine ==
    /\ pc = "line-done"
    /\ IF running
       THEN pc' = "reading-line" /\ UNCHANGED <<running, in_context>>
       ELSE pc' = "terminated" /\ running' = FALSE /\ in_context' = FALSE
    /\ line' = <<>>
    /\ events' = <<>>
    /\ calls' = <<>>
    /\ written' = <<>>
    /\ UNCHANGED <<commands, entries, handlers, lines_read, source_interrupted,
                   run_error, reg_vars, swap_vars, host_vars>>

\* an exception leaving the generator frame of Prompt.__iter__: InterruptException
\* derives from StopIteration, which a generator may not raise, so the caller
\* sees RuntimeError (PEP 479)
GeneratorRaises(exc) == IF exc = "InterruptException" THEN "RuntimeError" ELSE exc

\* the input source is interrupted and the session raises its interrupt_exception:
\* Prompt.get_input raises InterruptException inside the generator; Shell.run
\* handles what the generator raises
InputInterrupt ==
    /\ pc = "reading-line"
    /\ source_interrupted' = TRUE
    /\ LET exc == GeneratorRaises("InterruptException") IN
       /\ events' = IF RunCatches(exc) THEN <<PlainEvent(handlers, "INTERRUPT")>>
                    ELSE <<>>
       /\ pc' = IF RunCatches(exc) THEN "terminated" ELSE "failed"
       /\ run_error' = IF RunCatches(exc) THEN "" ELSE exc
    /\ running' = FALSE
    /\ in_context' = FALSE
    /\ UNCHANGED <<commands, entries, handlers, line, lines_read, calls, written,
                   reg_vars, swap_vars, host_vars>>

Next ==
    \/ Run
    \/ \E l \in Lines : GetInput(l)
    \/ \E outcome \in Outcome : Dispatch(outcome)
    \/ NextLine
    \/ InputNone
    \/ InputInterrupt

Spec == Init /\ [][Next]_vars

(* ------------------------- registry operations ------------------------- *)
\* the names the host registers commands under, and the parent arguments; the
\* empty name is that of a function whose __name__ is '' (cmd_name is
\* "name or func.__name__")
RegNames == {<<>>, <<"a">>, <<"b">>, <<"c">>}

Parents == {None} \cup {Some(n) : n \in RegNames}

\* CommandRegistry(): an empty registry, not yet handed to a Shell
InitRegistry ==
    /\ pc = "idle"
    /\ InitHost(FALSE)
    /\ running = TRUE
    /\ in_context = FALSE
    /\ commands = EmptyDict
    /\ entries = <<>>
    /\ handlers = DefaultHandlers
    /\ line = <<>>
    /\ lines_read = 0
    /\ source_interrupted = FALSE
    /\ events = <<>>
    /\ calls = <<>>
    /\ written = <<>>
    /\ run_error = ""
    /\ ops = 0
    /\ last_op = NoOp
    /\ shell_registry = "global"
    /\ other_commands = EmptyDict
    /\ completer_registry = "global"
    /\ other_handlers = DefaultHandlers

\* registry.register(f, name=cmd_name, parent=parent) with a new function f whose
\* __name__ is cmd_name too when that is empty
Register(cmd_name, parent) ==
    /\ pc = "idle"
    /\ ops < MaxOps
    /\ LET r == RegistryRegister(commands, entries, HostFunc(Len(entries) + 1),
                                cmd_name, parent)
       IN /\ commands' = r.cmds
          /\ entries' = r.ents
          /\ last_op' = [NoOp EXCEPT !.op = "register", !.name = cmd_name,
                                     !.parent = parent, !.error = r.error]
    /\ ops' = ops + 1
    /\ UNCHANGED <<pc, running, in_context, handlers, line, lines_read,
                   source_interrupted, events, calls, written, run_error, swap_vars,
                   host_vars>>

\* del registry[name]
Unregister(name) ==
    /\ pc = "idle"
    /\ ops < MaxOps
    /\ LET r == RegistryDelete(commands, entries, name, {}) IN
          /\ commands' = r.cmds
          /\ entries' = r.ents
          /\ last_op' = [NoOp EXCEPT !.op = "unregister", !.name = name,
                                     !.error = r.error]
    /\ ops' = ops + 1
    /\ UNCHANGED <<pc, running, in_context, handlers, line, lines_read,
                   source_interrupted, events, calls, written, run_error, swap_vars,
                   host_vars>>

NextRegistry ==
    \/ \E n \in RegNames, p \in Parents : Register(n, p)
    \/ \E n \in RegNames : Unregister(n)

SpecRegistry == InitRegistry /\ [][NextRegistry]_vars

(* ------------------- vocabulary of the properties ---------------------- *)
\* the whitespace-separated tokens of the line being processed
Tokens == Split(line)

RECURSIVE PathOf(_)
\* the names from the root command down to entry e
PathOf(e) ==
    IF entries[e].parent = 0 THEN <<entries[e].name>>
    ELSE Append(PathOf(entries[e].parent), entries[e].name)

\* the tokens that follow the command path of entry e
ArgsOf(e) == SubSeq(Tokens, Len(PathOf(e)) + 1, Len(Tokens))

\* the line names entry e by its path from a root command, and the token after
\* the path is not a subcommand of e
Invokes(e) ==
    /\ Len(Tokens) >= Len(PathOf(e))
    /\ SubSeq(Tokens, 1, Len(PathOf(e))) = PathOf(e)
    /\ ArgsOf(e) # <<>> => ~DictHas(entries[e].children, ArgsOf(e)[1])

\* _execute has run for the current line of text
Dispatched ==
    \/ pc = "line-done" /\ line # NoLine
    \/ pc \in {"terminated", "failed"} /\ ~source_interrupted

\* the loop has dealt with an interruption of the input source: None went through
\* _execute, or the exception of the session left the generator
InterruptHandled ==
    \/ pc = "line-done" /\ line = NoLine
    \/ pc \in {"terminated", "failed"} /\ source_interrupted

\* the loop survived the line and will ask for the next one
LoopContinues == pc = "line-done" /\ running /\ in_context /\ run_error = ""

EventCount(kind) == Cardinality({i \in 1..Len(events) : events[i].kind = kind})

IsRequired(p) == p.kind = "POSITIONAL_OR_KEYWORD" /\ ~p.has_default
IsVariadic(p) == p.kind = "VAR_POSITIONAL"

\* names of the parameters of params that satisfy Test, in declaration order
NamesWhere(params, Test(_)) ==
    LET sel == SelectSeq(params, Test) IN [i \in 1..Len(sel) |-> sel[i].name]

NoVariadic(params) == \A i \in 1..Len(params) : ~IsVariadic(params[i])
TrailingVariadic(params) == params # <<>> /\ IsVariadic(params[Len(params)])

EntryIds == 1..Len(entries)

\* the root-level command names of the bound registry
RootNames ==
    {entries[e].name : e \in {x \in EntryIds : entries[x].parent = 0
                                  /\ \E i \in 1..Len(commands) : commands[i].v = x}}

(* ------------------------------ properties ----------------------------- *)
\* C1: a command with N required positional parameters and no variadic one,
\* dispatched with k < N argument tokens, fires ARGUMENT_COUNT_ERROR exactly once
\* with missing_args = the names of required parameters k+1..N in order, fires
\* nothing else and does not call the function.
C1_MissingArguments ==
    \A e \in EntryIds :
        LET params == Signature(entries[e].func)
            required == NamesWhere(params, IsRequired)
            k == Len(ArgsOf(e))
        IN (Dispatched /\ Invokes(e) /\ NoVariadic(params) /\ k < Len(required)) =>
               /\ Len(events) = 1
               /\ events[1].kind = "ARGUMENT_COUNT_ERROR"
               /\ events[1].has_missing
               /\ events[1].missing = SubSeq(required, k + 1, Len(required))
               /\ calls = <<>>

\* "sum3 1" reported b and c missing
C1_Witness ==
    /\ pc = "line-done"
    /\ Tokens = <<N_sum3, <<"1">>>>
    /\ Len(events) = 1
    /\ events[1].kind = "ARGUMENT_COUNT_ERROR"
    /\ events[1].missing = <<"b", "c">>

\* C2 (as claimed): a command with a trailing variadic parameter accepts every
\* number of argument tokens >= its required fixed parameters: no
\* ARGUMENT_COUNT_ERROR and no UNEXPECTED_EXCEPTION, the fixed parameters are
\* bound first and every remaining token goes to the variadic parameter.
C2_VariadicAcceptsAnyCount ==
    \A e \in EntryIds :
        LET params == Signature(entries[e].func)
            k == Len(ArgsOf(e))
            fixed == Len(params) - 1
        IN (Dispatched /\ Invokes(e) /\ TrailingVariadic(params)
                /\ k >= Len(NamesWhere(params, IsRequired))) =>
               /\ EventCount("ARGUMENT_COUNT_ERROR") = 0
               /\ EventCount("UNEXPECTED_EXCEPTION") = 0
               /\ \A c \in 1..Len(calls) :
                      /\ Len(calls[c].args) = k
                      /\ \A j \in 1..k :
                             calls[c].names[j] =
                                 params[IF j <= fixed THEN j ELSE Len(params)].name

\* C3 (as claimed): a command without a variadic parameter, dispatched with more
\* argument tokens than it has parameters, fires ARGUMENT_COUNT_ERROR with
\* missing_args absent and provided - total = the number of surplus tokens, and
\* the function is not called.
C3_ExtraArguments ==
    \A e \in EntryIds :
        LET params == Signature(entries[e].func)
            k == Len(ArgsOf(e))
        IN (Dispatched /\ Invokes(e) /\ NoVariadic(params) /\ k > Len(params)) =>
               /\ Len(events) = 1
               /\ events[1].kind = "ARGUMENT_COUNT_ERROR"
               /\ ~events[1].has_missing
               /\ events[1].provided - events[1].total = k - Len(params)
               /\ calls = <<>>

\* C4 (as claimed): once the input source has signalled the loop-level interrupt,
\* the INTERRUPT handler has been called exactly once and Shell.run has
\* terminated normally.
C4_LoopInterrupt ==
    InterruptHandled =>
        /\ pc = "terminated"
        /\ run_error = ""
        /\ EventCount("INTERRUPT") = 1

\* C5 (as claimed): a command function that raises InterruptException is not
\* reported as a command exception; INTERRUPT fires once and the loop terminates.
C5_CommandEndsLoop ==
    (Dispatched /\ calls # <<>> /\ calls[1].outcome = "raise_interrupt") =>
        /\ EventCount("COMMAND_EXCEPTION") = 0
        /\ EventCount("INTERRUPT") = 1
        /\ pc = "terminated"

\* C6: a KeyboardInterrupt inside a command function fires COMMAND_INTERRUPT
\* exactly once, never INTERRUPT, and the loop goes on; an interrupt signalled by
\* the input source never fires COMMAND_INTERRUPT.
C6_InterruptsNotConflated ==
    /\ (Dispatched /\ calls # <<>> /\ calls[1].outcome = "raise_keyboard_interrupt") =>
           /\ EventCount("COMMAND_INTERRUPT") = 1
           /\ EventCount("INTERRUPT") = 0
           /\ LoopContinues
    /\ InterruptHandled => EventCount("COMMAND_INTERRUPT") = 0

\* the input source was interrupted, which fired no COMMAND_INTERRUPT and left
\* the loop reading; then a command was interrupted by KeyboardInterrupt and the
\* loop is about to read on
C6_Witness ==
    /\ source_interrupted
    /\ pc = "line-done"
    /\ calls # <<>>
    /\ calls[1].outcome = "raise_keyboard_interrupt"
    /\ EventCount("COMMAND_INTERRUPT") = 1

\* C7: an ordinary failure raised by the command function is reported by exactly
\* one COMMAND_EXCEPTION call carrying that exception, by no other event kind,
\* and the loop goes on to the next line.
C7_CommandException ==
    (Dispatched /\ calls # <<>> /\ calls[1].outcome = "raise_exception") =>
        /\ Len(events) = 1
        /\ events[1].kind = "COMMAND_EXCEPTION"
        /\ events[1].exc = "Exception"
        /\ LoopContinues

\* "hello x" raised and was reported as a command exception
C7_Witness ==
    /\ pc = "line-done"
    /\ Tokens = <<N_hello, <<"x">>>>
    /\ calls # <<>>
    /\ calls[1].outcome = "raise_exception"
    /\ Len(events) = 1
    /\ events[1].kind = "COMMAND_EXCEPTION"

\* C8 (as claimed): the text a command function returns is written to the output
\* exactly once; nothing is written for a None result.
C8_ResultWritten ==
    (Dispatched /\ calls # <<>>) =>
        /\ calls[1].outcome = "return_text" => written = <<ResultText>>
        /\ calls[1].outcome = "return_none" => written = <<>>

\* C9: a non-empty line whose first token is not the name of a root-level command
\* (a name held only by a nested subcommand included) fires UNKNOWN_COMMAND
\* exactly once with that token, calls no function, fires nothing else, and the
\* loop goes on.
C9_UnknownCommand ==
    (Dispatched /\ Tokens # <<>> /\ Tokens[1] \notin RootNames) =>
        /\ Len(events) = 1
        /\ events[1].kind = "UNKNOWN_COMMAND"
        /\ events[1].name = Tokens[1]
        /\ calls = <<>>
        /\ LoopContinues

\* "commit x": commit is registered, but only under git
C9_Witness ==
    /\ pc = "line-done"
    /\ Tokens = <<N_commit, <<"x">>>>
    /\ Len(events) = 1
    /\ events[1].kind = "UNKNOWN_COMMAND"
    /\ events[1].name = N_commit

\* C10: dispatching an empty or all-whitespace line fires no event, calls no
\* function, and leaves the registry, the handlers and the loop state unchanged;
\* the loop reads on.
C10_BlankLineNoEffect ==
    [][(pc = "resolving-command" /\ Tokens = <<>>) =>
          /\ events' = <<>>
          /\ calls' = <<>>
          /\ written' = <<>>
          /\ commands' = commands
          /\ entries' = entries
          /\ handlers' = handlers
          /\ running' = running
          /\ in_context' = in_context
          /\ run_error' = run_error
          /\ pc' = "line-done"]_vars

\* an all-whitespace line was dispatched
C10_Witness ==
    /\ pc = "line-done"
    /\ line = <<" ", "\t", " ">>
    /\ events = <<>>
    /\ calls = <<>>

(* ------------------------ handler registration ------------------------- *)
\* the on_* decorators of HandlerRegistry
Methods == {"on_unexpected_exception", "on_command_exception", "on_unknown_command",
            "on_interrupt", "on_command_interrupt", "on_type_transform_error",
            "on_argument_count_error"}

\* the functions the host registers as handlers
CustomHandlers == {"h1", "h2"}

\* the key each decorator assigns to
OnKey(method) ==
    CASE method = "on_unexpected_exception" -> "UNEXPECTED_EXCEPTION"
      [] method = "on_command_exception" -> "COMMAND_EXCEPTION"
      [] method = "on_unknown_command" -> "UNKNOWN_COMMAND"
      [] method = "on_interrupt" -> "INTERRUPT"
      [] method = "on_command_interrupt" -> "COMMAND_INTERRUPT"
      [] method = "on_type_transform_error" -> "TYPE_TRANSFORM_ERROR"
      [] OTHER -> "ARGUMENT_COUNT_ERROR"

\* OnHandler building the mapping anew from the defaults
OnHandler_from_defaults(hs, method, f) == [DefaultHandlers EXCEPT ![OnKey(method)] = f]

\* decorator(f) of an on_* method: self._handlers[Event.X] = f
OnHandler(hs, method, f) == [hs EXCEPT ![OnKey(method)] = f]

\* @handlers.on_x (or @handlers.on_x()) applied to f, on the registry bound to
\* the shell
On(method, f) ==
    /\ pc = "idle"
    /\ handlers' = OnHandler(handlers, method, f)
    /\ last_op' = [NoOp EXCEPT !.op = "on", !.kind = method, !.handler = f]
    /\ UNCHANGED <<pc, running, in_context, commands, entries, line, lines_read,
                   source_interrupted, events, calls, written, run_error, ops,
                   swap_vars, host_vars>>

NextHandlers == \E method \in Methods, f \in CustomHandlers : On(method, f)

SpecHandlers == Init /\ [][NextHandlers]_vars

(* ------------------------- lines under coercion ------------------------ *)
\* the registry with the commands whose parameters are bool, unions and lists
CoerceEntries ==
    InitEntries \o
    <<CommandInfo("flag", N_flag, 0, EmptyDict), CommandInfo("opt", N_opt, 0, EmptyDict),
      CommandInfo("uni", N_uni, 0, EmptyDict), CommandInfo("num", N_num, 0, EmptyDict),
      CommandInfo("pick", N_pick, 0, EmptyDict), CommandInfo("ids", N_ids, 0, EmptyDict),
      CommandInfo("two", N_two, 0, EmptyDict),
      CommandInfo("factory", N_factory, 0, EmptyDict),
      CommandInfo("kwd", N_kwd, 0, EmptyDict),
      CommandInfo("note", N_note, 0, EmptyDict),
      CommandInfo("dim", N_dim, 0, EmptyDict),
      CommandInfo("cell", N_cell, 0, EmptyDict)>>

CoerceCommands ==
    [i \in 1..Len(CoerceEntries) |-> [k |-> CoerceEntries[i].name, v |-> i]]

InitCoerce ==
    /\ pc = "idle"
    /\ InitHost(TRUE)
    /\ running = TRUE
    /\ in_context = FALSE
    /\ commands = CoerceCommands
    /\ entries = CoerceEntries
    /\ handlers = DefaultHandlers
    /\ line = <<>>
    /\ lines_read = 0
    /\ source_interrupted = FALSE
    /\ events = <<>>
    /\ calls = <<>>
    /\ written = <<>>
    /\ run_error = ""
    /\ ops = 0
    /\ last_op = NoOp
    /\ shell_registry = "global"
    /\ other_commands = EmptyDict
    /\ completer_registry = "global"
    /\ other_handlers = DefaultHandlers

CoerceFirst == {N_flag, N_opt, N_uni, N_num, N_pick, N_ids, N_two, N_factory, N_kwd,
                N_note, N_dim, N_cell}

\* the argument tokens: booleans in two letter cases, a number, a word, two
\* comma lists (one with an element that is no number), the "none" token
CoerceTokens ==
    {<<"t", "r", "u", "e">>, <<"F", "a", "L", "S", "E">>, <<"4", "2">>,
     <<"a", "b", "c">>, <<"1", ",", "2">>, <<"1", ",", "x">>, NoneToken}

CoerceLines ==
    {JoinWith(<<f>> \o a, <<" ">>) :
         f \in CoerceFirst,
         a \in UNION {[1..n -> CoerceTokens] : n \in 0..MaxCoerceArgs}}

NextCoerce ==
    \/ Run
    \/ \E l \in CoerceLines : GetInput(l)
    \/ \E outcome \in Outcome : Dispatch(outcome)
    \/ NextLine
    \/ InputNone
    \/ InputInterrupt

SpecCoerce == InitCoerce /\ [][NextCoerce]_vars

(* ------------------- swapping registry and handlers -------------------- *)
\* a second registry, my_registry, holds the command secret; Shell() put the
\* built-ins into the global registry only
SwapEntries == Append(InitEntries, CommandInfo("secret", N_secret, 0, EmptyDict))

MyCommands == <<[k |-> N_secret, v |-> Len(SwapEntries)]>>

\* the global handler registry and a second one, my_handlers, after the host
\* decorated its handlers
GlobalHandlers ==
    OnHandler(OnHandler(DefaultHandlers, "on_unknown_command", "unknown_command"),
              "on_interrupt", "interrupt")

MyHandlers ==
    OnHandler(OnHandler(OnHandler(DefaultHandlers,
                                  "on_unknown_command", "my_unknown_command"),
                        "on_command_exception", "my_command_exception"),
              "on_command_interrupt", "my_command_interrupt")

\* Shell() on the global registry and handlers, with my_registry and my_handlers
\* defined beside them; the prompt's completer defaults to the global registry
InitSwap ==
    /\ pc = "idle"
    /\ InitHost(TRUE)
    /\ running = TRUE
    /\ in_context = FALSE
    /\ commands = InitCommands
    /\ entries = SwapEntries
    /\ handlers = GlobalHandlers
    /\ line = <<>>
    /\ lines_read = 0
    /\ source_interrupted = FALSE
    /\ events = <<>>
    /\ calls = <<>>
    /\ written = <<>>
    /\ run_error = ""
    /\ ops = 0
    /\ last_op = NoOp
    /\ shell_registry = "global"
    /\ other_commands = MyCommands
    /\ completer_registry = "global"
    /\ other_handlers = MyHandlers

\* the host assigns shell.registry before Shell.run: no prompt is bound yet
AssignRegistry ==
    /\ pc = "idle"
    /\ LET set == SetRegistry(completer_registry, PromptBound,
                              OtherRegistry(shell_registry))
       IN /\ shell_registry' = set.registry
          /\ completer_registry' = set.completer
    /\ commands' = other_commands
    /\ other_commands' = commands
    /\ UNCHANGED <<pc, running, in_context, entries, handlers, line, lines_read,
                   source_interrupted, events, calls, written, run_error, reg_vars,
                   other_handlers, host_vars>>

\* the host assigns prompt.completer.registry before Shell.run: the completer
\* alone changes
AssignCompleter ==
    /\ pc = "idle"
    /\ completer_registry' =
           SetCompleterRegistry(completer_registry, OtherRegistry(completer_registry))
    /\ UNCHANGED <<pc, running, in_context, commands, entries, handlers, line,
                   lines_read, source_interrupted, events, calls, written, run_error,
                   reg_vars, shell_registry, other_commands, other_handlers,
                   host_vars>>

\* the lines typed while registries are swapped
SwapTokenLists ==
    {<<N_hello, <<"x">>>>, <<N_hello>>, <<N_secret>>, <<N_git>>, <<N_exit>>,
     <<UnknownToken>>}

SwapLines == {JoinWith(tl, <<" ">>) : tl \in SwapTokenLists}

NextSwap ==
    \/ AssignRegistry
    \/ AssignCompleter
    \/ Run
    \/ \E l \in SwapLines : GetInput(l)
    \/ \E outcome \in Outcome, effect \in Effect : DispatchWith(outcome, effect)
    \/ NextLine
    \/ InputNone
    \/ InputInterrupt

SpecSwap == InitSwap /\ [][NextSwap]_vars

(* --------------------------- one-shot CLI mode -------------------------- *)
\* the command lines the program is started with: none, a help flag, the buffer
\* flag alone, and a command with its arguments, with or without the buffer flag
CliArgvs ==
    {<<>>, <<NoAltBufferFlag>>}
        \cup {<<h>> : h \in HelpFlags}
        \cup TokenLists
        \cup {<<NoAltBufferFlag>> \o tl : tl \in TokenLists}

\* the program is started with command line arguments; Shell() has run
InitCli ==
    /\ pc = "idle"
    /\ shell_instance = {"Shell"}
    /\ shells = <<"Shell">>
    /\ argv \in CliArgvs
    /\ exit_status = -1
    /\ iter_state = "none"
    /\ xf = NoTransform
    /\ running = TRUE
    /\ in_context = FALSE
    /\ commands = InitCommands
    /\ entries = InitEntries
    /\ handlers = DefaultHandlers
    /\ line = <<>>
    /\ lines_read = 0
    /\ source_interrupted = FALSE
    /\ events = <<>>
    /\ calls = <<>>
    /\ written = <<>>
    /\ run_error = ""
    /\ ops = 0
    /\ last_op = NoOp
    /\ shell_registry = "global"
    /\ other_commands = EmptyDict
    /\ completer_registry = "global"
    /\ other_handlers = DefaultHandlers

\* the except clauses of _handle_cli_args around self._execute(...) with result r:
\* InterruptException is ignored, any other Exception is reported as
\* UNEXPECTED_EXCEPTION and followed by sys.exit(1); then Shell.run returns
CliSettle(r) ==
    /\ calls' = r.calls
    /\ written' = r.written
    /\ IF r.raised \in {"", "InterruptException"}
       THEN /\ events' = r.events \o r.after
            /\ pc' = "terminated"
            /\ run_error' = ""
       ELSE /\ events' = r.events \o r.after
                             \o <<ExceptionEvent(handlers, "UNEXPECTED_EXCEPTION",
                                                 r.raised)>>
            /\ pc' = "failed"
            /\ run_error' = "SystemExit"

\* Shell.run in a process started with arguments: _handle_cli_args, and the start
\* of the loop when it returns True
RunCli(outcome) ==
    /\ pc = "idle"
    /\ CASE CliMode(argv) = "interactive" ->
               /\ pc' = "reading-line"
               /\ running' = TRUE
               /\ in_context' = TRUE
               /\ UNCHANGED <<line, events, calls, written, run_error>>
         [] CliMode(argv) = "help" ->
               /\ pc' = "terminated"
               /\ UNCHANGED <<running, in_context, line, events, calls, written,
                              run_error>>
         [] OTHER ->
               /\ line' = JoinWith(FilteredArgs(argv), <<" ">>)
               /\ CliSettle(Execute(commands, entries, handlers,
                                    JoinWith(FilteredArgs(argv), <<" ">>), outcome))
               /\ UNCHANGED <<running, in_context>>
    /\ UNCHANGED <<commands, entries, handlers, lines_read, source_interrupted,
                   reg_vars, swap_vars, host_vars>>

\* Shell.run has returned or raised and the host's script ends with it: status 0
\* after a return, 1 after sys.exit(1) or an uncaught exception
ProcessExit ==
    /\ pc \in {"terminated", "failed"}
    /\ exit_status = -1
    /\ exit_status' = IF run_error = "" THEN 0 ELSE 1
    /\ UNCHANGED <<pc, running, in_context, commands, entries, handlers, line,
                   lines_read, source_interrupted, events, calls, written, run_error,
                   reg_vars, swap_vars, shell_instance, shells, argv, iter_state, xf>>

NextCli ==
    \/ \E outcome \in Outcome : RunCli(outcome)
    \/ \E l \in Lines : GetInput(l)
    \/ \E outcome \in Outcome : Dispatch(outcome)
    \/ NextLine
    \/ InputNone
    \/ InputInterrupt
    \/ ProcessExit

SpecCli == InitCli /\ [][NextCli]_vars

(* ------------------- registration of host functions -------------------- *)
\* the functions a host tries to register: f1 has no parameters, the others are
\* listed with Signature
HostFuncs ==
    {"f1", "hello", "bare", "bare_only", "bare_kw", "bare_var", "mixed", "kwargs",
     "typed_kw", "typed_var"}

\* the names and parents these registrations use
TypedNames == {<<"a">>, <<"b">>}

TypedParents == {None} \cup {Some(n) : n \in TypedNames}

\* registry.register(func, name=cmd_name, parent=parent)
RegisterFunc(func, cmd_name, parent) ==
    /\ pc = "idle"
    /\ ops < MaxTypedOps
    /\ LET r == RegistryRegister(commands, entries, func, cmd_name, parent) IN
          /\ commands' = r.cmds
          /\ entries' = r.ents
          /\ last_op' = [NoOp EXCEPT !.op = "register", !.name = cmd_name,
                                     !.parent = parent, !.func = func,
                                     !.error = r.error]
    /\ ops' = ops + 1
    /\ UNCHANGED <<pc, running, in_context, handlers, line, lines_read,
                   source_interrupted, events, calls, written, run_error, swap_vars,
                   host_vars>>

NextTyped ==
    \/ \E f \in HostFuncs, n \in TypedNames, p \in TypedParents : RegisterFunc(f, n, p)
    \/ \E n \in TypedNames : Unregister(n)

SpecTyped == InitRegistry /\ [][NextTyped]_vars

(* ------------------------- construction of shells ----------------------- *)
\* the classes the host constructs shells from: Shell itself and a subclass of it
\* that defines nothing of its own
ShellClasses == {"Shell", "SubShell"}

\* the classes an attribute of cls is looked up in: cls and its bases
Mro(cls) == IF cls = "Shell" THEN {"Shell"} ELSE {cls, "Shell"}

\* the value read as cls._instance: Shell._instance is False in the class body, an
\* assignment to cls._instance sets the attribute of cls itself
InstanceFlag(flags, cls) == \E c \in Mro(cls) : c \in flags

\* the outcome of cls(builtins=builtins) with the global registry: the flags, the
\* registry, whether an object was returned, and the exception raised
ShellResult(flags, cmds, ents, returned, error) ==
    [flags |-> flags, cmds |-> cmds, ents |-> ents, returned |-> returned,
     error |-> error]

\* Shell._register_builtin_commands: exit, then help; the first exception ends it
RegisterBuiltins(cmds, ents) ==
    LET r1 == RegistryRegister(cmds, ents, "_exit_command", N_exit, None) IN
    IF r1.error # "" THEN r1
    ELSE RegistryRegister(r1.cmds, r1.ents, "_help_command", N_help, None)

\* Shell.__new__(cls): raises when cls._instance reads True, else sets it on cls
ShellNew(flags, cls) ==
    IF InstanceFlag(flags, cls)
    THEN [flags |-> flags, error |-> "RuntimeError"]
    ELSE [flags |-> flags \cup {cls}, error |-> ""]

\* cls(builtins=builtins): __new__, then __init__ on the new object
ShellConstruct(flags, cmds, ents, cls, builtins) ==
    LET n == ShellNew(flags, cls) IN
    IF n.error # "" THEN ShellResult(flags, cmds, ents, FALSE, n.error)
    ELSE IF ~builtins THEN ShellResult(n.flags, cmds, ents, TRUE, "")
    ELSE LET r == RegisterBuiltins(cmds, ents) IN
         ShellResult(n.flags, r.cmds, r.ents, r.error = "", r.error)

\* the host evaluates cls(builtins=builtins)
Construct(cls, builtins) ==
    /\ pc = "idle"
    /\ ops < MaxOps
    /\ LET r == ShellConstruct(shell_instance, commands, entries, cls, builtins) IN
          /\ shell_instance' = r.flags
          /\ commands' = r.cmds
          /\ entries' = r.ents
          /\ shells' = IF r.returned THEN Append(shells, cls) ELSE shells
          /\ last_op' = [NoOp EXCEPT !.op = "construct", !.error = r.error]
    /\ ops' = ops + 1
    /\ UNCHANGED <<pc, running, in_context, handlers, line, lines_read,
                   source_interrupted, events, calls, written, run_error, swap_vars,
                   argv, exit_status, iter_state, xf>>

\* a host that registers and unregisters commands, among them a help command of
\* its own, and constructs shells
NextConstruct ==
    \/ \E cls \in ShellClasses, builtins \in BOOLEAN : Construct(cls, builtins)
    \/ \E n \in RegNames, p \in Parents : Register(n, p)
    \/ Register(N_help, None)
    \/ \E n \in RegNames : Unregister(n)

SpecConstruct == InitRegistry /\ [][NextConstruct]_vars

(* ------------------------ the prompt's lifecycle ------------------------ *)
\* how the wait of Prompt.get_input ends: self._session.prompt() returns a line;
\* or, on Ctrl-C or end of input, it returns None or raises the session's
\* interrupt_exception, InterruptException
PromptInputs ==
    {[end |-> "line", text |-> l] : l \in {<<"a">>, <<"b">>, <<"e", "x", "i", "t">>}}
        \cup {[end |-> "none", text |-> NoLine], [end |-> "raises", text |-> <<>>]}

\* Prompt(...) alone, used by the host without a Shell loop
InitPrompt ==
    /\ pc = "idle"
    /\ InitHost(TRUE)
    /\ running = TRUE
    /\ in_context = FALSE
    /\ commands = InitCommands
    /\ entries = InitEntries
    /\ handlers = DefaultHandlers
    /\ line = <<>>
    /\ lines_read = 0
    /\ source_interrupted = FALSE
    /\ events = <<>>
    /\ calls = <<>>
    /\ written = <<>>
    /\ run_error = ""
    /\ ops = 0
    /\ last_op = NoOp
    /\ shell_registry = "global"
    /\ other_commands = EmptyDict
    /\ completer_registry = "global"
    /\ other_handlers = DefaultHandlers

\* what no operation on the prompt changes
prompt_frame ==
    <<pc, commands, entries, handlers, events, calls, written, run_error, swap_vars,
      shell_instance, shells, argv, exit_status, xf>>

\* the generator Prompt.__iter__ at "while self._running": it ends (the function
\* returns) when the prompt is not running, else it calls get_input(), which
\* waits for the terminal
LoopStep ==
    IF ~running
    THEN [running |-> FALSE, asks |-> FALSE, error |-> ""]
    ELSE [running |-> TRUE, asks |-> TRUE, error |-> ""]

\* the generator raises RuntimeError at its start when the prompt is not in its
\* context; "except Exception" then clears _running
StartStep ==
    IF ~in_context
    THEN [running |-> FALSE, asks |-> FALSE, error |-> "RuntimeError"]
    ELSE LoopStep

\* next() on the generator, made by the for statement as operation op, up to the
\* point where the generator ends, raises or waits in get_input(): while it
\* waits the generator is running (waiting is "started" for the first next() of
\* a loop, "resumed" for a later one) and the operation is not over
Resumed(op, r, waiting) ==
    IF r.asks
    THEN /\ iter_state' = waiting
         /\ UNCHANGED <<running, in_context, line, lines_read, source_interrupted,
                        last_op, ops, prompt_frame>>
    ELSE /\ running' = r.running
         /\ iter_state' = "none"
         /\ last_op' = [NoOp EXCEPT !.op = op, !.error = r.error]
         /\ ops' = ops + 1
         /\ UNCHANGED <<in_context, line, lines_read, source_interrupted,
                        prompt_frame>>

\* "with prompt:" is entered: Prompt.__enter__
Enter ==
    /\ pc = "idle"
    /\ ops < MaxOps
    /\ running' = TRUE
    /\ in_context' = TRUE
    /\ last_op' = [NoOp EXCEPT !.op = "enter"]
    /\ ops' = ops + 1
    /\ UNCHANGED <<iter_state, line, lines_read, source_interrupted, prompt_frame>>

\* the with block is left: Prompt.__exit__
Exit ==
    /\ pc = "idle"
    /\ ops < MaxOps
    /\ running' = FALSE
    /\ in_context' = FALSE
    /\ last_op' = [NoOp EXCEPT !.op = "exit"]
    /\ ops' = ops + 1
    /\ UNCHANGED <<iter_state, line, lines_read, source_interrupted, prompt_frame>>

\* "for line in prompt:" begins: iter(prompt) and the first next(), up to the
\* wait for input
ForStart ==
    /\ pc = "idle"
    /\ ops < MaxOps
    /\ iter_state = "none"
    /\ lines_read < MaxLines
    /\ Resumed("for", StartStep, "started")

\* the loop body has finished and the loop asks for the next line: next(), up to
\* the wait for input
ForNext ==
    /\ pc = "idle"
    /\ ops < MaxOps
    /\ iter_state = "suspended"
    /\ lines_read < MaxLines
    /\ Resumed("next", LoopStep, "resumed")

\* the wait in get_input() ends: self._session.prompt() returns a line or None,
\* which the generator yields to the loop without looking at _running or
\* _in_context again, or it raises InterruptException, which passes
\* "except Exception" (_running is cleared) and leaves the generator; the next()
\* of the for statement is over
InputArrives(input) ==
    /\ pc = "idle"
    /\ ops < MaxOps
    /\ iter_state \in {"started", "resumed"}
    /\ IF input.end = "raises"
       THEN /\ running' = FALSE
            /\ iter_state' = "none"
            /\ UNCHANGED <<line, lines_read>>
       ELSE /\ iter_state' = "suspended"
            /\ line' = input.text
            /\ lines_read' = lines_read + 1
            /\ UNCHANGED running
    /\ source_interrupted' = (source_interrupted \/ input.end # "line")
    /\ last_op' = [NoOp EXCEPT !.op = IF iter_state = "started" THEN "for" ELSE "next",
                               !.error = IF input.end = "raises"
                                         THEN GeneratorRaises("InterruptException")
                                         ELSE ""]
    /\ ops' = ops + 1
    /\ UNCHANGED <<in_context, prompt_frame>>

\* the loop body leaves the loop with break: the suspended generator is closed
\* (GeneratorExit is no Exception, the except clause does not run)
Break ==
    /\ pc = "idle"
    /\ ops < MaxOps
    /\ iter_state = "suspended"
    /\ iter_state' = "none"
    /\ last_op' = [NoOp EXCEPT !.op = "break"]
    /\ ops' = ops + 1
    /\ UNCHANGED <<running, in_context, line, lines_read, source_interrupted,
                   prompt_frame>>

\* the host assigns prompt._running = True
SetRunning ==
    /\ pc = "idle"
    /\ ops < MaxOps
    /\ running' = TRUE
    /\ last_op' = [NoOp EXCEPT !.op = "set_running"]
    /\ ops' = ops + 1
    /\ UNCHANGED <<in_context, iter_state, line, lines_read, source_interrupted,
                   prompt_frame>>

\* the host's loop and whatever else holds the prompt (another thread, a callback
\* of the input source) while the loop waits for input
NextPrompt ==
    \/ Enter
    \/ Exit
    \/ ForStart
    \/ ForNext
    \/ \E input \in PromptInputs : InputArrives(input)
    \/ Break
    \/ SetRunning

SpecPrompt == InitPrompt /\ [][NextPrompt]_vars

(* ------------------- direct calls of the coercion ---------------------- *)
\* the texts between the commas of an argument: numbers, a word, padded numbers,
\* nothing
XfPieces == {<<>>, <<"1">>, <<"2">>, <<"3">>, <<"x">>, <<"X">>, <<" ", "2">>,
             <<"3", " ">>}

\* the declared types the argument is converted to; the literal types are
\* Literal["x", "X", 2] and Literal[Mode.X, "x"] for an Enum class Mode
XfTypes == {T_list(T_int), T_list(T_str), T_int, T_str,
            T_literal(<<StrValue(<<"x">>), StrValue(<<"X">>), IntValue(2)>>),
            T_literal(<<EnumValue(<<"X">>), StrValue(<<"x">>)>>)}

\* Shell() exists and is about to be asked to convert one argument: the pieces
\* joined by commas
InitTransform ==
    /\ pc = "idle"
    /\ running = TRUE
    /\ in_context = FALSE
    /\ commands = InitCommands
    /\ entries = InitEntries
    /\ handlers = DefaultHandlers
    /\ line = <<>>
    /\ lines_read = 0
    /\ source_interrupted = FALSE
    /\ events = <<>>
    /\ calls = <<>>
    /\ written = <<>>
    /\ run_error = ""
    /\ ops = 0
    /\ last_op = NoOp
    /\ shell_registry = "global"
    /\ other_commands = EmptyDict
    /\ completer_registry = "global"
    /\ other_handlers = DefaultHandlers
    /\ shell_instance = {"Shell"}
    /\ shells = <<"Shell">>
    /\ argv = <<>>
    /\ exit_status = -1
    /\ iter_state = "none"
    /\ xf \in {[NoTransform EXCEPT !.type = t, !.pieces = ps,
                                   !.arg = JoinWith(ps, <<",">>)] :
                  t \in XfTypes,
                  ps \in UNION {[1..n -> XfPieces] : n \in 0..MaxPieces}}

\* shell._transform_single_type(xf.type, xf.arg, "v"): the value, or
\* InvalidArgumentTypeException (ok false) after the handler calls in events
Transform ==
    /\ pc = "idle"
    /\ ~xf.done
    /\ LET r == TransformSingleType(handlers, xf.type, xf.arg, "v", FALSE) IN
       xf' = [xf EXCEPT !.done = TRUE, !.ok = r.ok, !.val = r.val,
                        !.events = r.events]
    /\ UNCHANGED <<pc, running, in_context, commands, entries, handlers, line,
                   lines_read, source_interrupted, events, calls, written, run_error,
                   reg_vars, swap_vars, shell_instance, shells, argv, exit_status,
                   iter_state>>

NextTransform == Transform

SpecTransform == InitTransform /\ [][NextTransform]_vars

(* ----------------- vocabulary of the registry properties ---------------- *)
\* the step is registry.register(f, name=n, parent=p) / del registry[n]
Registers(n, p) ==
    ops' = ops + 1 /\ last_op'.op = "register" /\ last_op'.name = n
        /\ last_op'.parent = p

Unregisters(n) == ops' = ops + 1 /\ last_op'.op = "unregister" /\ last_op'.name = n

\* the step raised exc ("" for a normal return)
Raised(exc) == last_op'.error = exc

RegistryUnchanged == commands' = commands /\ entries' = entries

\* the root-level entry named n, 0 when there is none
RootNamed(n) ==
    IF DictHas(commands, n) /\ entries[DictGet(commands, n)].parent = 0
    THEN DictGet(commands, n) ELSE 0

\* the entries a registry yields when iterated
Yielded(cmds) == {cmds[i].v : i \in 1..Len(cmds)}

ChildIds(ents, e) == {ents[e].children[i].v : i \in 1..Len(ents[e].children)}

RECURSIVE Descendants(_, _)
\* the entries below e in the tree of children mappings
Descendants(ents, e) ==
    ChildIds(ents, e) \cup UNION {Descendants(ents, c) : c \in ChildIds(ents, e)}

\* the entries of the registry: what it yields and everything below
Registered(cmds, ents) ==
    Yielded(cmds) \cup UNION {Descendants(ents, e) : e \in Yielded(cmds)}

RECURSIVE PathIn(_, _)
\* the names from the root command down to entry e of ents
PathIn(ents, e) ==
    IF ents[e].parent = 0 THEN <<ents[e].name>>
    ELSE Append(PathIn(ents, ents[e].parent), ents[e].name)

\* the function the line made of these tokens calls, "" when it calls none
Called(cmds, ents, tokens) ==
    LET r == Execute(cmds, ents, DefaultHandlers, JoinWith(tokens, <<" ">>),
                     "return_none")
    IN IF r.calls = <<>> THEN "" ELSE r.calls[1].func

(* -------------------------- registry properties ------------------------- *)
\* C11 (as claimed), the registrations: a root registration under the name of a
\* root-level command raises ValueError and changes nothing; so does a
\* registration under a parent that already has a child of that name; a
\* registration under a parent without such a child succeeds, whatever the other
\* parents hold, and puts a new entry with the new function into that parent's
\* children mapping.
C11_Step ==
    \A n \in RegNames, p \in Parents :
        Registers(n, p) =>
            IF ~p.some
            THEN RootNamed(n) # 0 => (Raised("ValueError") /\ RegistryUnchanged)
            ELSE DictHas(commands, p.val) =>
                   LET pid == DictGet(commands, p.val) IN
                   IF DictHas(entries[pid].children, n)
                   THEN Raised("ValueError") /\ RegistryUnchanged
                   ELSE /\ Raised("")
                        /\ DictHas(entries'[pid].children, n)
                        /\ DictGet(entries'[pid].children, n) = Len(entries) + 1
                        /\ entries'[Len(entries) + 1].func = HostFunc(Len(entries) + 1)
                        /\ entries'[Len(entries) + 1].parent = pid
                        /\ \A q \in 1..Len(entries) :
                               q # pid => entries'[q].children = entries[q].children

\* C11, the resulting tree: the children two parents hold under one name are
\* distinct entries, and for every root command r and every child name n of r
\* the line "r n" calls the function of r's own child n.
C11_Children ==
    /\ \A p1, p2 \in Registered(commands, entries) :
           \A n \in RegNames :
               (p1 # p2 /\ DictHas(entries[p1].children, n)
                        /\ DictHas(entries[p2].children, n)) =>
                   /\ DictGet(entries[p1].children, n) # DictGet(entries[p2].children, n)
                   /\ entries[DictGet(entries[p1].children, n)].func #
                          entries[DictGet(entries[p2].children, n)].func
    /\ \A r \in RegNames, n \in RegNames :
           (RootNamed(r) # 0 /\ DictHas(entries[RootNamed(r)].children, n)) =>
               Called(commands, entries, <<r, n>>) =
                   entries[DictGet(entries[RootNamed(r)].children, n)].func

\* C11 (as claimed): duplicate names fail at root level and under one parent,
\* same-named children under different parents both succeed and each parent's
\* path dispatches to its own child's function.
C11_DuplicateNames == [][C11_Step]_vars /\ []C11_Children

\* C12 (as claimed): a root registration fails with ValueError only when a
\* root-level entry of that name exists; otherwise, whatever nested entries carry
\* the name, it succeeds, and afterwards the new root command is called by the
\* line made of its name while every nested entry is still called by its path.
C12_RootSharesNestedName ==
    [][\A n \in RegNames :
          (Registers(n, None) /\ RootNamed(n) = 0) =>
              /\ Raised("")
              /\ Called(commands', entries', <<n>>) = HostFunc(Len(entries) + 1)
              /\ \A e \in Registered(commands, entries) :
                     Called(commands', entries', PathIn(entries, e)) =
                         Called(commands, entries, PathIn(entries, e))]_vars

\* C13 (as claimed): after del registry[n] for a root command n that has
\* children, the flat lookup of n and of the name of every former descendant
\* returns absent, and iterating the registry yields none of them.
C13_UnregisterRemovesDescendants ==
    [][\A n \in RegNames :
          (Unregisters(n) /\ RootNamed(n) # 0 /\ entries[RootNamed(n)].children # <<>>) =>
              \A e \in {RootNamed(n)} \cup Descendants(entries, RootNamed(n)) :
                  /\ RegistryGet(commands', entries[e].name) = 0
                  /\ e \notin Yielded(commands')]_vars

\* C14 (as claimed): del registry[n] removes the entry the name n is looked up
\* to and its descendants and nothing else: every other registered entry keeps
\* its flat lookup key, is called by the same line as before and keeps its
\* children mapping, except that the parent of the removed entry loses that one
\* child; for an absent name nothing changes.
C14_UnregisterFrame ==
    [][\A n \in RegNames :
          Unregisters(n) =>
              IF ~DictHas(commands, n) THEN RegistryUnchanged /\ Raised("")
              ELSE LET target == DictGet(commands, n)
                       removed == {target} \cup Descendants(entries, target)
                   IN \A e \in Registered(commands, entries) \ removed :
                          /\ \A k \in RegNames :
                                 RegistryGet(commands, k) = e =>
                                     RegistryGet(commands', k) = e
                          /\ Called(commands', entries', PathIn(entries, e)) =
                                 Called(commands, entries, PathIn(entries, e))
                          /\ entries'[e].children =
                                 IF e = entries[target].parent
                                 THEN DictDel(entries[e].children, n)
                                 ELSE entries[e].children]_vars

(* -------------------------- handler properties -------------------------- *)
\* the event kind each on_* decorator registers a handler for
MethodKind ==
    [on_unexpected_exception |-> "UNEXPECTED_EXCEPTION",
     on_command_exception |-> "COMMAND_EXCEPTION",
     on_unknown_command |-> "UNKNOWN_COMMAND",
     on_interrupt |-> "INTERRUPT",
     on_command_interrupt |-> "COMMAND_INTERRUPT",
     on_type_transform_error |-> "TYPE_TRANSFORM_ERROR",
     on_argument_count_error |-> "ARGUMENT_COUNT_ERROR"]

\* the default handlers and the functions the host registers
Callables == {DefaultHandlers[e] : e \in Event} \cup CustomHandlers

\* C15, the mapping: each of the seven event kinds maps to a callable.
C15_AllMapped ==
    /\ DOMAIN handlers = Event
    /\ Cardinality(Event) = 7
    /\ \A e \in Event : handlers[e] \in Callables

\* C15, one registration: the kind of the decorator maps to the registered
\* function, the six other kinds map to what they mapped to before.
C15_Step ==
    \A m \in Methods :
        (last_op'.op = "on" /\ last_op'.kind = m) =>
            /\ handlers'[MethodKind[m]] = last_op'.handler
            /\ \A e \in Event \ {MethodKind[m]} : handlers'[e] = handlers[e]

\* C15: after any sequence of on_* registrations every event kind maps to a
\* callable, and a registration replaces only the entry of its own kind.
C15_HandlersComplete == []C15_AllMapped /\ [][C15_Step]_vars

\* two kinds carry registered handlers, the five others still their defaults
C15_Witness ==
    /\ handlers["INTERRUPT"] = "h1"
    /\ handlers["UNKNOWN_COMMAND"] = "h2"
    /\ \A e \in Event \ {"INTERRUPT", "UNKNOWN_COMMAND"} :
           handlers[e] = DefaultHandlers[e]
    /\ last_op.op = "on"

(* --------------------------- swap properties ---------------------------- *)
\* the root command names of the two registry objects
RootNamesOf(registry) ==
    IF registry = "my_registry" THEN {N_secret}
    ELSE {InitEntries[i].name : i \in {j \in 1..Len(InitEntries) :
                                           InitEntries[j].parent = 0}}

\* the step is the processing of the line of text read
ProcessesLine == pc = "resolving-command" /\ pc' # "resolving-command" /\ line # NoLine

\* C16: a line is resolved against the registry last assigned to Shell.registry
\* and against no other (its first token is unknown exactly when that registry
\* has no root command of that name, otherwise the line reaches arity checking
\* or a call); an assignment made by a command that returns leaves the loop
\* running; and each assignment made while a prompt is bound leaves
\* completer.registry equal to the shell's registry.
C16_RegistrySwap ==
    [][/\ ProcessesLine =>
            ((\E i \in 1..Len(events') : events'[i].kind = "UNKNOWN_COMMAND")
                 <=> Tokens[1] \notin RootNamesOf(shell_registry))
       /\ (ProcessesLine /\ shell_registry' # shell_registry
               /\ calls'[1].outcome \in {"return_none", "return_text"}) =>
              (pc' = "line-done" /\ running' /\ in_context' /\ run_error' = "")
       /\ (shell_registry' # shell_registry /\ PromptBound) =>
              completer_registry' = shell_registry']_vars

\* after a command assigned my_registry, the next line "secret" is dispatched
\* and the completer points at my_registry
C16_Witness ==
    /\ pc = "line-done"
    /\ lines_read = 2
    /\ shell_registry = "my_registry"
    /\ completer_registry = "my_registry"
    /\ Tokens = <<N_secret>>
    /\ Len(calls) = 1
    /\ calls[1].func = "secret"

\* C17 (as claimed): every handler called for a line is the one that the handler
\* registry bound when the processing of the line began holds for the event
\* kind, whatever the command of the line assigns to Shell.handlers.
C17_HandlersTakenAtLineStart ==
    [][ProcessesLine =>
          \A i \in 1..Len(events') :
              events'[i].handler = Handler(handlers, events'[i].kind)]_vars

(* ------------------ vocabulary of the coercion properties --------------- *)
\* the handler calls of kind TYPE_TRANSFORM_ERROR made for the current line
TypeErrors == SelectSeq(events, LAMBDA ev : ev.kind = "TYPE_TRANSFORM_ERROR")

\* the line was resolved to a command and passed the argument count check, and
\* binding did not end in a call: it failed on a coercion
BindingFailedOnCoercion ==
    /\ Tokens # <<>>
    /\ calls = <<>>
    /\ EventCount("UNKNOWN_COMMAND") = 0
    /\ EventCount("ARGUMENT_COUNT_ERROR") = 0
    /\ EventCount("UNEXPECTED_EXCEPTION") = 0

\* entry e has exactly one parameter and the line gives it exactly one token
OneArgument(e) ==
    /\ Invokes(e)
    /\ Len(Signature(entries[e].func)) = 1
    /\ Len(ArgsOf(e)) = 1

\* tok is word written in any letter case
SameLetters(tok, word) ==
    /\ Len(tok) = Len(word)
    /\ \A i \in 1..Len(tok) :
           \/ tok[i] = word[i]
           \/ \E k \in 1..Len(UpperCase) : tok[i] = UpperCase[k] /\ word[i] = LowerCase[k]

\* C18 (as claimed): for a dispatched line the TYPE_TRANSFORM_ERROR handler is
\* called at most once, exactly once when binding fails on a coercion, and not
\* at all when binding succeeds and the function is called (a union candidate
\* that fails before another one succeeds fires nothing).
C18_CoercionReportedOnce ==
    Dispatched =>
        /\ Len(TypeErrors) <= 1
        /\ BindingFailedOnCoercion => Len(TypeErrors) = 1
        /\ calls # <<>> => TypeErrors = <<>>

\* C19: for a command whose one parameter is a union and a token the none rule
\* does not take, the function is called with the value of the first candidate
\* (declaration order, None left out) whose own coercion accepts the token; with
\* int | str, "42" arrives as the integer 42 and "abc" as the string "abc"; if
\* no candidate accepts it the function is not called and exactly one
\* TYPE_TRANSFORM_ERROR names all the candidates, in order.
C19_UnionFirstCandidate ==
    \A e \in EntryIds :
        LET p == Signature(entries[e].func)[1]
            tok == ArgsOf(e)[1]
            cands == SelectSeq(p.type.args, LAMBDA t : t.tag # "NoneType")
            allows_none == Len(cands) < Len(p.type.args)
            try(j) == TransformSingleType(handlers, cands[j], tok, p.name, TRUE)
            accepting == {j \in 1..Len(cands) : try(j).ok}
            first == CHOOSE j \in accepting : \A k \in accepting : j <= k
            combined == SelectSeq(TypeErrors,
                                  LAMBDA ev : ev.arg_type = JoinNames(cands))
        IN (Dispatched /\ OneArgument(e) /\ p.type.tag = "UnionType"
                /\ ~(allows_none /\ tok = NoneToken)) =>
               /\ accepting # {} =>
                      /\ Len(calls) = 1
                      /\ calls[1].func = entries[e].func
                      /\ calls[1].args = <<try(first).val>>
               /\ accepting = {} =>
                      /\ calls = <<>>
                      /\ Len(combined) = 1
                      /\ combined[1].arg = tok
               /\ (entries[e].func = "uni" /\ tok = <<"4", "2">>) =>
                      calls[1].args = <<IntValue(42)>>
               /\ (entries[e].func = "uni" /\ tok = <<"a", "b", "c">>) =>
                      calls[1].args = <<StrValue(<<"a", "b", "c">>)>>

\* uni(v: int | str) was called with the string "abc": int failed, str accepted
C19_Witness ==
    /\ Dispatched
    /\ Tokens = <<N_uni, <<"a", "b", "c">>>>
    /\ Len(calls) = 1
    /\ calls[1].args = <<StrValue(<<"a", "b", "c">>)>>
    /\ TypeErrors = <<>>

\* what coercing one trimmed piece as the item type T gives
AsItem(T, piece) ==
    IF T.tag = "int"
    THEN [ok |-> IntParse(piece).ok, val |-> IntValue(IntParse(piece).val)]
    ELSE [ok |-> TRUE, val |-> StrValue(piece)]

\* C21: converting an argument to list-of(T) gives, for the pieces between its
\* commas, the sequence of the trimmed pieces coerced as T, one per piece and in
\* input order ("1,2,3" as list-of(int) is [1,2,3]); the empty argument gives
\* the empty list; when a piece does not coerce the conversion fails, exactly
\* one TYPE_TRANSFORM_ERROR reports the first such piece (trimmed), and no list
\* is produced.
C21_ListOf ==
    (xf.done /\ xf.type.tag = "list") =>
        LET T == xf.type.args[1]
            item(i) == AsItem(T, Strip(xf.pieces[i]))
            bad == {i \in 1..Len(xf.pieces) : ~item(i).ok}
            first == CHOOSE i \in bad : \A k \in bad : i <= k
        IN /\ xf.arg = <<>> =>
                  (xf.ok /\ xf.val = ListValue(<<>>) /\ xf.events = <<>>)
           /\ (xf.arg # <<>> /\ bad = {}) =>
                  /\ xf.ok
                  /\ xf.val = ListValue([i \in 1..Len(xf.pieces) |-> item(i).val])
                  /\ xf.events = <<>>
           /\ (xf.arg # <<>> /\ bad # {}) =>
                  /\ ~xf.ok
                  /\ xf.val = NoneValue
                  /\ Len(xf.events) = 1
                  /\ xf.events[1].kind = "TYPE_TRANSFORM_ERROR"
                  /\ xf.events[1].arg = Strip(xf.pieces[first])
                  /\ xf.events[1].arg_type = <<TypeName(T)>>
           /\ (T = T_int /\ xf.arg = <<"1", ",", "2", ",", "3">>) =>
                  xf.val = ListValue(<<IntValue(1), IntValue(2), IntValue(3)>>)

\* "1,x,3" was converted to list-of(int): it failed and "x" was reported
C21_Witness ==
    /\ xf.done
    /\ xf.type = T_list(T_int)
    /\ xf.arg = <<"1", ",", "x", ",", "3">>
    /\ ~xf.ok
    /\ Len(xf.events) = 1
    /\ xf.events[1].arg = <<"x">>

(* ------------------ vocabulary of the binding properties ---------------- *)
\* the declared type ty takes the token tok: str takes every token, int the
\* numbers, a union what one of its members takes, None the token none
RECURSIVE TokenFits(_, _)
TokenFits(ty, tok) ==
    CASE ty.tag = "str" -> TRUE
      [] ty.tag = "int" -> IntParse(tok).ok
      [] ty.tag = "NoneType" -> tok = NoneToken
      [] ty.tag = "bool" -> Lower(tok) \in BoolOptions
      [] ty.tag = "list" ->
             \A k \in 1..Len(SplitOn(tok, ",")) :
                 TokenFits(ty.args[1], Strip(SplitOn(tok, ",")[k]))
      [] ty.tag = "UnionType" ->
             \E i \in 1..Len(ty.args) : TokenFits(ty.args[i], tok)
      [] OTHER -> FALSE

\* the call received a value for the parameter called name
HasValueFor(call, name) == \E i \in 1..Len(call.names) : call.names[i] = name

\* the value the call received for the parameter called name
ValueFor(call, name) ==
    call.args[CHOOSE i \in 1..Len(call.names) : call.names[i] = name]

\* C22 (as claimed): when the token none stands at the position j of a parameter
\* that has a default, no more tokens are given than there are parameters and
\* every other token fits the parameter of its position, the function is
\* called once, parameter j is left to its default, and every other token is
\* the value of the parameter of its own position ("test 1 none 5": a = 1, c = 5).
C22_NoneSkipsToLater ==
    \A e \in EntryIds :
        LET params == Signature(entries[e].func)
            args == ArgsOf(e)
            k == Len(args)
            skipped == {j \in 1..k : args[j] = NoneToken /\ params[j].has_default}
        IN (Dispatched /\ Invokes(e) /\ NoVariadic(params) /\ k <= Len(params)
                /\ skipped # {}
                /\ \A i \in (1..k) \ skipped : TokenFits(params[i].type, args[i])
                /\ \A r \in 1..Len(params) : IsRequired(params[r]) => r <= k) =>
               /\ Len(calls) = 1
               /\ \A j \in skipped :
                      HasValueFor(calls[1], params[j].name) =>
                          ValueFor(calls[1], params[j].name) = NoneValue
               /\ \A i \in (1..k) \ skipped :
                      /\ HasValueFor(calls[1], params[i].name)
                      /\ ValueFor(calls[1], params[i].name) \in
                             {StrValue(args[i]), IntValue(IntParse(args[i]).val)}

\* the declared type of the parameter called name
TypeOf(params, name) ==
    params[CHOOSE i \in 1..Len(params) : params[i].name = name].type

\* the declared type is a union with None among its members
PermitsNone(ty) ==
    ty.tag = "UnionType" /\ \E i \in 1..Len(ty.args) : ty.args[i].tag = "NoneType"

\* C23 (as claimed): whenever the function is called, a token none among the
\* tokens that were bound stands at a parameter whose type permits None and
\* arrives as None; at a parameter whose type does not permit None the token
\* never becomes a value the function receives.
C23_NoneIsAbsence ==
    \A e \in EntryIds :
        (Dispatched /\ Invokes(e)) =>
            \A c \in 1..Len(calls) :
                \A i \in 1..Len(calls[c].args) :
                    ArgsOf(e)[i] = NoneToken =>
                        /\ PermitsNone(TypeOf(Signature(entries[e].func),
                                              calls[c].names[i]))
                        /\ calls[c].args[i] = NoneValue

(* ------------------- properties of the prompt's lifecycle --------------- *)
\* a step that begins a loop over a prompt that is not in its context
StartsOutside ==
    ops' = ops + 1 /\ last_op'.op = "for" /\ iter_state = "none" /\ ~in_context

\* a step in which the loop is waiting for input inside the context and the input
\* source is interrupted: the wait ends, and not with a line of text
InterruptedInside ==
    /\ ops' = ops + 1
    /\ last_op'.op \in {"for", "next"}
    /\ iter_state \in {"started", "resumed"}
    /\ in_context
    /\ running
    /\ ~(iter_state' = "suspended" /\ line' # NoLine)

\* C24: a Prompt can only be iterated inside its context: beginning a loop over
\* a prompt that is not entered (never entered, or exited) raises RuntimeError
\* without reading input and leaves the prompt False; an interruption of the
\* input source inside the context reaches the loop as InterruptException, a
\* condition distinct from that RuntimeError; and after the context is exited
\* the prompt is False.
C24_IterationOnlyInContext ==
    [][ /\ StartsOutside =>
            /\ last_op'.error = "RuntimeError"
            /\ lines_read' = lines_read
            /\ line' = line
            /\ ~running'
        /\ InterruptedInside =>
            /\ last_op'.error = "InterruptException"
            /\ ~running'
        /\ (ops' = ops + 1 /\ last_op'.op = "exit") => ~running'
      ]_vars

(* --------------------- properties of construction ---------------------- *)
\* C25: Shell can be instantiated at most once per process: once one Shell object
\* has been constructed, every later attempt to construct a Shell (an instance of
\* Shell or of a subclass) raises RuntimeError and constructs no second object.
C25_ShellOnlyOnce ==
    [][ (ops' = ops + 1 /\ last_op'.op = "construct" /\ shells # <<>>) =>
            (last_op'.error = "RuntimeError" /\ shells' = shells)
      ]_vars

(* ------------------- properties of typed registration ------------------ *)
\* the function has a parameter other than **kwargs without type hint
HasUntypedParameter(func) ==
    \E i \in 1..Len(Signature(func)) :
        /\ Signature(func)[i].kind # "VAR_KEYWORD"
        /\ Signature(func)[i].type = Untyped

\* a step in which the host registers the function func
RegistersFunc(func) ==
    ops' = ops + 1 /\ last_op'.op = "register" /\ last_op'.func = func

\* no entry of the registry, reachable from the flat mapping, has an untyped
\* parameter other than **kwargs
AllEntriesTyped ==
    \A e \in Registered(commands, entries) : ~HasUntypedParameter(entries[e].func)

\* C26 (as claimed): registering a function that has a positional, keyword-only
\* or variadic-positional parameter without type hint raises
\* UntypedCommandException, and no registered entry has such a parameter.
C26_UntypedRaises ==
    [][ \A f \in HostFuncs :
            (RegistersFunc(f) /\ HasUntypedParameter(f)) =>
                /\ Raised("UntypedCommandException")
                /\ RegistryUnchanged
                /\ AllEntriesTyped'
      ]_vars

\* C26 (amended): a missing type hint is a registration-time failure: registering
\* a function that has a positional, keyword-only or variadic-positional
\* parameter without type hint always fails and leaves the registry unchanged,
\* with ValueError when the name or the parent is rejected (that test comes
\* first) and with UntypedCommandException otherwise; a function whose only
\* untyped parameter is **kwargs is accepted; so no registered entry ever has
\* such an untyped parameter.
C26_UntypedNeverRegistered ==
    [][ /\ \A f \in HostFuncs :
              (RegistersFunc(f) /\ HasUntypedParameter(f)) =>
                  /\ RegistryUnchanged
                  /\ Raised(IF RegistryRegister(commands, entries, "f1", last_op'.name,
                                                last_op'.parent).error # ""
                            THEN "ValueError" ELSE "UntypedCommandException")
        /\ \A f \in HostFuncs :
              (RegistersFunc(f) /\ ~HasUntypedParameter(f)) =>
                  Raised(RegistryRegister(commands, entries, "f1", last_op'.name,
                                          last_op'.parent).error)
        /\ AllEntriesTyped'
      ]_vars

\* an untyped function was rejected for its missing type hint while a function
\* with an untyped **kwargs stands registered
C26_Witness ==
    /\ last_op.op = "register"
    /\ HasUntypedParameter(last_op.func)
    /\ last_op.error = "UntypedCommandException"
    /\ \E e \in Registered(commands, entries) :
           \E i \in 1..Len(Signature(entries[e].func)) :
               Signature(entries[e].func)[i].type = Untyped

(* ------------------- properties of the registry listing ----------------- *)
\* CommandRegistry.__iter__: the entries in the order iter(registry) yields them
Iter(cmds) == [i \in 1..Len(cmds) |-> cmds[i].v]

RECURSIVE InOrder(_)
\* the entries of a set in registration order (ids are given in that order)
InOrder(S) ==
    IF S = {} THEN <<>>
    ELSE LET m == CHOOSE x \in S : \A y \in S : x <= y IN <<m>> \o InOrder(S \ {m})

\* C27: iterating the registry yields every entry that is registered and not
\* unregistered, root and nested, nested entries sharing a name with another entry
\* included, exactly once each and in registration order.
C27_IterYieldsAll == Iter(commands) = InOrder(Registered(commands, entries))

(* ------------------ properties of unexpected exceptions ----------------- *)
\* the process was started to run one command and Shell.run is over
OneShotOver == CliMode(argv) = "execute" /\ pc \in {"terminated", "failed"}

\* C28: an unexpected exception during the dispatch of a line fires the
\* UNEXPECTED_EXCEPTION handler once; in interactive mode the loop then continues
\* with the next line, and in one-shot CLI mode the process exits with a
\* non-zero status.
C28_UnexpectedException ==
    /\ EventCount("UNEXPECTED_EXCEPTION") <= 1
    /\ (Dispatched /\ CliMode(argv) = "interactive"
            /\ EventCount("UNEXPECTED_EXCEPTION") = 1) => LoopContinues
    /\ (OneShotOver /\ EventCount("UNEXPECTED_EXCEPTION") = 1) => exit_status # 0

(* -------------------- properties of failure containment ---------------- *)
\* processing the line failed: no function was called for it, or the function
\* raised an exception
LineFailed ==
    /\ Tokens # <<>>
    /\ \/ calls = <<>>
       \/ calls[1].outcome \in {"raise_exception", "raise_interrupt"}

\* C29: no failure of resolution, binding or command execution escapes the loop:
\* for every line, the exception that arises is surfaced through exactly one
\* handler event, the dispatch returns normally and Shell.run goes on to read the
\* next line.
C29_FailureSurfacedOnce ==
    Dispatched =>
        /\ LoopContinues
        /\ Len(events) <= 1
        /\ LineFailed => Len(events) = 1

(* ----------------------- properties of the call ------------------------ *)
\* the tokens of the line that are bound for entry e: those before a none token
\* at a parameter with a default
EffectiveTokens(e) == EffectiveArgs(ArgsOf(e), Signature(entries[e].func))

\* the declared type for the token at position i: the parameter of that position,
\* the variadic parameter for the positions from it on
PositionType(params, i) ==
    IF i < Len(params) \/ (i = Len(params) /\ ~IsVariadic(params[i]))
    THEN params[i].type
    ELSE params[Len(params)].type

\* the arity check fails for entry e: fewer tokens than parameters the check
\* counts as required (those without default that are not variadic), or more
\* than parameters without a variadic one
ArityFails(e) ==
    LET params == Signature(entries[e].func)
        n == Len(EffectiveTokens(e))
    IN \/ n < Cardinality({i \in 1..Len(params) :
                              ~IsVariadic(params[i]) /\ ~params[i].has_default})
       \/ (~HasVarPositional(params) /\ n > Len(params))

\* some bound token fits no alternative of the type declared for its position
CoercionFails(e) ==
    \E i \in 1..Len(EffectiveTokens(e)) :
        ~TokenFits(PositionType(Signature(entries[e].func), i), EffectiveTokens(e)[i])

\* the function of entry e declares a keyword-only parameter
HasKeywordOnly(e) ==
    \E i \in 1..Len(Signature(entries[e].func)) :
        Signature(entries[e].func)[i].kind = "KEYWORD_ONLY"

\* the values a token can be coerced to
ValuesOf(tok) ==
    {StrValue(tok)}
        \cup (IF IntParse(tok).ok THEN {IntValue(IntParse(tok).val)} ELSE {})
        \cup (IF Lower(tok) \in BoolOptions
              THEN {BoolValue(Lower(tok) = <<"t", "r", "u", "e">>)} ELSE {})
        \cup (IF tok = NoneToken THEN {NoneValue} ELSE {})
        \cup (IF TokenFits(T_list(T_int), tok)
              THEN {ListValue([k \in 1..Len(SplitOn(tok, ",")) |->
                                  IntValue(IntParse(SplitOn(tok, ",")[k]).val)])}
              ELSE {})

(* --------------------- properties of bool parameters -------------------- *)
\* the positions of the parameters of entry e that are declared bool
BoolParams(e) ==
    {i \in 1..Len(Signature(entries[e].func)) :
        Signature(entries[e].func)[i].type = T_bool}

\* the TYPE_TRANSFORM_ERROR calls made for the parameter at position i of entry e
ErrorsAt(e, i) ==
    SelectSeq(TypeErrors, LAMBDA ev : ev.arg_name = Signature(entries[e].func)[i].name)

\* what C20 says of the token tok given for the bool parameter at position i of
\* entry e: true / false in any letter case arrives as that boolean, any other
\* token is reported with the options {"true", "false"} and the function is not
\* called
BoolRoundTrip(e, i, tok) ==
    LET is_true == SameLetters(tok, <<"t", "r", "u", "e">>)
        is_false == SameLetters(tok, <<"f", "a", "l", "s", "e">>)
    IN IF is_true \/ is_false
       THEN /\ Len(calls) = 1
            /\ calls[1].func = entries[e].func
            /\ Len(calls[1].args) >= i
            /\ calls[1].args[i] = BoolValue(is_true)
            /\ ErrorsAt(e, i) = <<>>
       ELSE /\ calls = <<>>
            /\ Len(ErrorsAt(e, i)) = 1
            /\ ErrorsAt(e, i)[1].arg = tok
            /\ ErrorsAt(e, i)[1].options = BoolOptions

\* C20 (as claimed): a token given for a bool parameter yields true / false when
\* it is "true" / "false" in any letter case, and every other token fails with a
\* TYPE_TRANSFORM_ERROR whose options are {"true", "false"} and the function is
\* not called.
C20_BoolRoundTrip ==
    \A e \in EntryIds : \A i \in BoolParams(e) :
        (Dispatched /\ Invokes(e) /\ i <= Len(ArgsOf(e))) =>
            BoolRoundTrip(e, i, ArgsOf(e)[i])

\* the binder coerces the token at position i for entry e: the argument count
\* check passed, the token stands before any none token given for a parameter
\* with a default, and every token before it fits the parameter of its position
Coerced(e, i) ==
    /\ ~ArityFails(e)
    /\ i <= Len(EffectiveTokens(e))
    /\ \A j \in 1..(i - 1) :
           TokenFits(PositionType(Signature(entries[e].func), j), EffectiveTokens(e)[j])

\* every parameter of entry e is an ordinary positional one
AllPositional(e) ==
    \A j \in 1..Len(Signature(entries[e].func)) :
        Signature(entries[e].func)[j].kind \in {"POSITIONAL_ONLY", "POSITIONAL_OR_KEYWORD"}

\* C20 (amended): a token the binder coerces for a bool parameter yields the
\* boolean true / false when it is "true" / "false" in any letter case (the
\* function, when it is called, receives that boolean at the parameter's
\* position, and a function of ordinary positional parameters is called when
\* every other token is accepted too); any other token is reported by exactly one
\* TYPE_TRANSFORM_ERROR with the options {"true", "false"} and the function is not
\* called. A token that is not coerced (the argument count check failed, a none
\* token for a parameter with a default stands at or before it, or an earlier
\* token was rejected) fires no TYPE_TRANSFORM_ERROR for the parameter and gives
\* it no value; so none for a bool parameter with a default skips it.
C20_BoolRoundTripWhenCoerced ==
    \A e \in EntryIds : \A i \in BoolParams(e) :
        (Dispatched /\ Invokes(e)) =>
            LET eff == EffectiveTokens(e)
                params == Signature(entries[e].func)
                is_true == SameLetters(eff[i], <<"t", "r", "u", "e">>)
                is_false == SameLetters(eff[i], <<"f", "a", "l", "s", "e">>)
            IN IF ~Coerced(e, i)
               THEN /\ ErrorsAt(e, i) = <<>>
                    /\ calls # <<>> => Len(calls[1].args) < i
               ELSE IF is_true \/ is_false
               THEN /\ ErrorsAt(e, i) = <<>>
                    /\ calls # <<>> =>
                           /\ Len(calls[1].args) >= i
                           /\ calls[1].args[i] = BoolValue(is_true)
                    /\ (AllPositional(e)
                           /\ \A j \in 1..Len(eff) :
                                  TokenFits(PositionType(params, j), eff[j])) =>
                           /\ Len(calls) = 1
                           /\ calls[1].func = entries[e].func
               ELSE /\ calls = <<>>
                    /\ Len(TypeErrors) = 1
                    /\ Len(ErrorsAt(e, i)) = 1
                    /\ ErrorsAt(e, i)[1].arg = eff[i]
                    /\ ErrorsAt(e, i)[1].options = BoolOptions

\* cell(a: int, b: bool) was called with 42 and False for the line "cell 42 FaLSE"
C20_Witness ==
    /\ Dispatched
    /\ Tokens = <<N_cell, <<"4", "2">>, <<"F", "a", "L", "S", "E">>>>
    /\ Len(calls) = 1
    /\ calls[1].args = <<IntValue(42), BoolValue(FALSE)>>

RECURSIVE ValuesAs(_, _)
\* the values the declared type ty allows the token tok to be coerced to
ValuesAs(ty, tok) ==
    CASE ty.tag = "str" -> {StrValue(tok)}
      [] ty.tag = "int" ->
             IF IntParse(tok).ok THEN {IntValue(IntParse(tok).val)} ELSE {}
      [] ty.tag = "NoneType" -> IF tok = NoneToken THEN {NoneValue} ELSE {}
      [] ty.tag = "bool" ->
             IF Lower(tok) \in BoolOptions
             THEN {BoolValue(Lower(tok) = <<"t", "r", "u", "e">>)} ELSE {}
      [] ty.tag = "list" ->
             IF TokenFits(ty, tok)
             THEN {ListValue([k \in 1..Len(SplitOn(tok, ",")) |->
                                 CHOOSE v \in ValuesAs(ty.args[1],
                                                       Strip(SplitOn(tok, ",")[k])) : TRUE])}
             ELSE {}
      [] ty.tag = "UnionType" ->
             UNION {ValuesAs(ty.args[i], tok) : i \in 1..Len(ty.args)}
      [] OTHER -> {}

\* C30 (as claimed): the command function is never called when binding fails
\* (the arity check fails, or some token fits no alternative of the type declared
\* for its position); when binding succeeds the function is called exactly once
\* for the line, with one coerced value per effective token, in token order.
C30_CalledOnlyWhenBound ==
    \A e \in EntryIds :
        (Dispatched /\ Invokes(e)) =>
            IF ArityFails(e) \/ CoercionFails(e)
            THEN calls = <<>>
            ELSE /\ Len(calls) = 1
                 /\ calls[1].func = entries[e].func
                 /\ calls[1].outcome # "raise_type_error"
                 /\ Len(calls[1].args) = Len(EffectiveTokens(e))
                 /\ \A i \in 1..Len(EffectiveTokens(e)) :
                        calls[1].args[i] \in
                            ValuesAs(PositionType(Signature(entries[e].func), i),
                                     EffectiveTokens(e)[i])

(* --------------------- properties of the resolution --------------------- *)
\* what was done for the line concerns entry e and the argument tokens args: its
\* function was called with one value per bound token, or the failure reported
\* names the entry, counts these tokens or shows one of them
ConcernsEntry(e, args) ==
    LET eff == EffectiveArgs(args, Signature(entries[e].func)) IN
    IF calls # <<>>
    THEN /\ Len(calls) = 1
         /\ calls[1].func = entries[e].func
         /\ Len(calls[1].args) = Len(eff)
         /\ \A i \in 1..Len(eff) : calls[1].args[i] \in ValuesOf(eff[i])
    ELSE /\ Len(events) = 1
         /\ CASE events[1].kind = "ARGUMENT_COUNT_ERROR" ->
                    /\ events[1].name = entries[e].name
                    /\ events[1].provided = Len(eff)
              [] events[1].kind = "TYPE_TRANSFORM_ERROR" ->
                    \E i \in 1..Len(eff) : events[1].arg = eff[i]
              [] OTHER -> events[1].kind = "UNEXPECTED_EXCEPTION"

\* C31: resolution is a greedy prefix walk without backtracking: from the root
\* command named by the first token each following token descends into the
\* child of that name while there is one; the entry reached when a token matches
\* no child or the tokens run out is the one dispatched, with its own function
\* also when it has children, and every token from the first non-matching one on
\* (a later one equal to a child name included) is an argument token.
C31_GreedyPrefixWalk ==
    /\ \A e \in EntryIds :
           (Dispatched /\ Invokes(e)) => ConcernsEntry(e, ArgsOf(e))
    /\ (Dispatched /\ Tokens # <<>> /\ Tokens[1] \in RootNames) =>
           Cardinality({e \in EntryIds : Invokes(e)}) = 1

\* "git x commit": x matches no child of git, so git is dispatched and both x and
\* commit are counted as its arguments
C31_Witness ==
    /\ Dispatched
    /\ Tokens = <<N_git, <<"x">>, N_commit>>
    /\ calls = <<>>
    /\ Len(events) = 1
    /\ events[1].kind = "ARGUMENT_COUNT_ERROR"
    /\ events[1].name = N_git
    /\ events[1].provided = 2

(* -------------------- properties of the flat lookup --------------------- *)
\* C32: a successful registration of a non-root entry under a name that already
\* has a flat-lookup entry keeps that entry when it is root-level and replaces it
\* by the new entry when it is itself non-root; a name without a flat-lookup
\* entry is always inserted.
C32_LastNestedWinsFlatKey ==
    [][ \A n \in RegNames, p \in RegNames :
            (Registers(n, Some(p)) /\ Raised("")) =>
                /\ DictHas(commands', n)
                /\ DictGet(commands', n) =
                       IF DictHas(commands, n) /\ entries[DictGet(commands, n)].parent = 0
                       THEN DictGet(commands, n)
                       ELSE Len(entries')
      ]_vars

(* ----------------- properties of keyword-only parameters ---------------- *)
\* the parameters of entry e that a token can be bound to: those declared before
\* the keyword-only ones
PositionalParams(e) ==
    SelectSeq(Signature(entries[e].func),
              LAMBDA p : p.kind \in {"POSITIONAL_ONLY", "POSITIONAL_OR_KEYWORD",
                                     "VAR_POSITIONAL"})

KeywordOnlyNames(e) ==
    {Signature(entries[e].func)[i].name :
        i \in {j \in 1..Len(Signature(entries[e].func)) :
                  Signature(entries[e].func)[j].kind = "KEYWORD_ONLY"}}

\* C33: for a command that declares keyword-only parameters no token is bound to
\* a keyword-only parameter: no token is coerced for one, the function receives
\* at most one value per positional parameter, the arity check neither requires
\* a keyword-only parameter nor accepts a token for one.
C33_KeywordOnlyNotBound ==
    \A e \in EntryIds :
        (Dispatched /\ Invokes(e) /\ HasKeywordOnly(e)) =>
            LET pos == PositionalParams(e)
                n == Len(EffectiveTokens(e))
            IN /\ \A i \in 1..Len(events) :
                      /\ events[i].kind = "TYPE_TRANSFORM_ERROR" =>
                             events[i].arg_name \notin KeywordOnlyNames(e)
                      /\ events[i].kind = "ARGUMENT_COUNT_ERROR" =>
                             \A k \in 1..Len(events[i].missing) :
                                 events[i].missing[k] \notin KeywordOnlyNames(e)
               /\ \A c \in 1..Len(calls) :
                      HasVarPositional(pos) \/ Len(calls[c].args) <= Len(pos)
               /\ (~HasVarPositional(pos) /\ n > Len(pos)) =>
                      /\ calls = <<>>
                      /\ EventCount("ARGUMENT_COUNT_ERROR") = 1

(* ------------------- properties of the literal choice ------------------- *)
\* the positions of the allowed values whose string form (member name for an
\* Enum member) is the argument
ExactChoices(values, arg) == {k \in 1..Len(values) : LiteralOption(values[k]) = arg}

\* the positions of the str values that equal the argument when case is ignored
FoldedChoices(values, arg) ==
    {k \in 1..Len(values) : values[k].t = "str" /\ Lower(values[k].s) = Lower(arg)}

\* C34: converting an argument for Literal[...] returns an allowed value or
\* fails: a value whose string form is exactly the argument is returned when
\* there is one; only when there is none a str value equal to it ignoring case
\* is returned; without any match the conversion fails after one
\* TYPE_TRANSFORM_ERROR that carries the list of all allowed choices.
C34_LiteralExactFirst ==
    (xf.done /\ xf.type.tag = "Literal") =>
        LET values == xf.type.args
            exact == ExactChoices(values, xf.arg)
            folded == FoldedChoices(values, xf.arg)
        IN IF exact # {}
           THEN xf.ok /\ xf.events = <<>> /\ \E k \in exact : xf.val = values[k]
           ELSE IF folded # {}
           THEN xf.ok /\ xf.events = <<>> /\ \E k \in folded : xf.val = values[k]
           ELSE /\ ~xf.ok
                /\ Len(xf.events) = 1
                /\ xf.events[1].kind = "TYPE_TRANSFORM_ERROR"
                /\ xf.events[1].arg = xf.arg
                /\ xf.events[1].options =
                       [k \in 1..Len(values) |-> LiteralOption(values[k])]

(* ------------------- properties of failed registrations ----------------- *)
\* the step is a registry.register(...) call that raised
RegisterFails == ops' = ops + 1 /\ last_op'.op = "register" /\ last_op'.error # ""

\* C35: a register call that fails (duplicate name, parent not found, untyped
\* parameter) leaves the registry as it was: the flat lookup, every entry and
\* every entry's children are unchanged and no new entry exists.
C35_FailedRegisterChangesNothing ==
    [][ RegisterFails => (commands' = commands /\ entries' = entries) ]_vars

\* a function with an untyped parameter was registered under an existing parent
\* that has no child of that name: the call raised UntypedCommandException after
\* both uniqueness tests had passed
C35_Witness ==
    /\ last_op.op = "register"
    /\ last_op.error = "UntypedCommandException"
    /\ last_op.parent.some
    /\ DictHas(commands, last_op.parent.val)
    /\ ~DictHas(entries[DictGet(commands, last_op.parent.val)].children, last_op.name)

(* ---------------- properties of the registry's structure ---------------- *)
\* the entries obtainable by flat lookup
FlatEntries == {DictGet(commands, n) : n \in {m \in RegNames : DictHas(commands, m)}}

\* a flat-lookup entry with a parent is the child of that name of its parent
ChildOfItsParent(e) ==
    entries[e].parent # 0 =>
        /\ DictHas(entries[entries[e].parent].children, entries[e].name)
        /\ DictGet(entries[entries[e].parent].children, entries[e].name) = e

\* the parent of a flat-lookup entry is obtainable by flat lookup
ParentRegistered(e) == entries[e].parent # 0 => entries[e].parent \in FlatEntries

\* the children of a flat-lookup entry have it as their parent
ParentOfItsChildren(e) ==
    \A n \in RegNames :
        DictHas(entries[e].children, n) =>
            entries[DictGet(entries[e].children, n)].parent = e

\* C36: after any sequence of register and unregister calls the registry is
\* structurally consistent: every flat-lookup entry with a parent is stored in
\* that parent's children under its own name, that parent is obtainable by flat
\* lookup, and every child of a flat-lookup entry has that entry as its parent.
C36_StructurallyConsistent ==
    \A e \in FlatEntries :
        ChildOfItsParent(e) /\ ParentRegistered(e) /\ ParentOfItsChildren(e)

(* ------------------ properties of unregister's recursion ---------------- *)
\* C37: unregister(name) terminates in every registry state that register calls
\* can produce, also when a nested entry has the name of one of its ancestors:
\* the recursive removal of the children reaches an end (Python does not run out
\* of stack) and afterwards the name is no longer a flat-lookup key.
C37_UnregisterTerminates ==
    [][ \A n \in RegNames :
            Unregisters(n) =>
                /\ last_op'.error # "RecursionError"
                /\ ~DictHas(commands', n)
      ]_vars

(* ------------------- properties of omitted parameters ------------------- *)
\* C38: in every dispatch that calls the command function, of a variadic or a
\* non-variadic command, the function receives exactly one value per effective
\* token: a parameter with a default that got no token is left to the
\* function's own default, no value (such as None) is passed for it.
C38_OmittedDefaultNotPassed ==
    \A e \in EntryIds :
        (Dispatched /\ Invokes(e) /\ ~HasKeywordOnly(e) /\ calls # <<>>) =>
            Len(calls[1].args) = Len(EffectiveTokens(e))

(* ----------------- properties of failed constructions ------------------- *)
\* C39: a construction that fails after the single-instance guard has been
\* passed does not use up the single-instance slot: as long as no construction
\* has returned a shell, no construction is refused by the guard.
C39_FailedConstructionKeepsSlot ==
    [][ (ops' = ops + 1 /\ last_op'.op = "construct" /\ shells = <<>>) =>
            last_op'.error # "RuntimeError"
      ]_vars

(* ------------------ properties of the completer's registry -------------- *)
\* Shell.run has bound the prompt and its loop has not ended
LoopRunning == pc \in {"reading-line", "resolving-command", "line-done"}

\* C40: whenever the shell loop is running with a bound prompt, the registry of
\* the prompt's completer is the shell's current registry: from the moment
\* Shell.run binds the prompt, also when the shell's registry was then not the
\* one the completer was built with, and after every later assignment.
C40_CompleterFollowsShell ==
    (PromptBound /\ LoopRunning) => completer_registry = shell_registry

====
